---- MODULE Spec2Model ----
(***************************************************************************)
(* A model of the voice-webhook core of rusty_twilio:                      *)
(*   - validate_twilio_signature (src/src/validation.rs), the check of the *)
(*     X-Twilio-Signature header of an inbound webhook request;            *)
(*   - VoiceResponse (src/src/twiml/voice.rs), the builder of the TwiML    *)
(*     reply and its validating serialization.                             *)
(*                                                                         *)
(* Text is a sequence of one-character strings, so that prefixes, byte     *)
(* order and concatenation are computed and not assumed.  Option<T> is a   *)
(* sequence of length 0 (None) or 1 (Some).                                *)
(***************************************************************************)
EXTENDS Integers, Sequences, FiniteSets

\* ------------------------------------------------------------------ text

\* The printable ASCII characters, 0x20 .. 0x7E, in byte order (the double
\* quote, the backslash and the backquote are written by their codes).
Printable ==
  << " ", "!", "0x22", "#", "$", "%", "&", "'", "(", ")", "*", "+", ",", "-", ".", "/",
       "0", "1", "2", "3", "4", "5", "6", "7", "8", "9", ":", ";", "<", "=", ">", "?",
       "@", "A", "B", "C", "D", "E", "F", "G", "H", "I", "J", "K", "L", "M", "N", "O",
       "P", "Q", "R", "S", "T", "U", "V", "W", "X", "Y", "Z", "[", "0x5C", "]", "^", "_",
       "0x60", "a", "b", "c", "d", "e", "f", "g", "h", "i", "j", "k", "l", "m", "n", "o",
       "p", "q", "r", "s", "t", "u", "v", "w", "x", "y", "z", "{", "|", "}", "~" >>

\* One byte outside ASCII (0xE9), as a header value may carry (obs-text).
OpaqueByte == "0xE9"

\* The byte value of each character.
ByteOf ==
  [c \in { Printable[i] : i \in 1..Len(Printable) } \cup {OpaqueByte} |->
     IF c = OpaqueByte THEN 233
     ELSE 31 + (CHOOSE i \in 1..Len(Printable) : Printable[i] = c)]

Ord(c) == ByteOf[c]

None == <<>>
Some(x) == <<x>>
IsSome(o) == Len(o) = 1
IsNone(o) == Len(o) = 0
Unwrap(o) == o[1]

\* str::starts_with
starts_with(s, prefix) ==
  /\ Len(prefix) <= Len(s)
  /\ SubSeq(s, 1, Len(prefix)) = prefix

\* Ord for str / String: lexicographic order of the bytes.
RECURSIVE StrLess(_, _)
StrLess(a, b) ==
  IF Len(b) = 0 THEN FALSE
  ELSE IF Len(a) = 0 THEN TRUE
  ELSE IF Ord(Head(a)) # Ord(Head(b)) THEN Ord(Head(a)) < Ord(Head(b))
  ELSE StrLess(Tail(a), Tail(b))

\* The literals of the source.
s_https == <<"h", "t", "t", "p", "s", ":", "/", "/">>
s_form_urlencoded ==
  << "a", "p", "p", "l", "i", "c", "a", "t", "i", "o", "n", "/", "x", "-", "w", "w", "w",
       "-", "f", "o", "r", "m", "-", "u", "r", "l", "e", "n", "c", "o", "d", "e", "d" >>
s_wss == <<"w", "s", "s", ":", "/", "/">>

\* The standard Base64 alphabet (index 0 is Base64Alphabet[1]).
Base64Alphabet ==
  << "A", "B", "C", "D", "E", "F", "G", "H", "I", "J", "K", "L", "M", "N", "O", "P",
       "Q", "R", "S", "T", "U", "V", "W", "X", "Y", "Z", "a", "b", "c", "d", "e", "f",
       "g", "h", "i", "j", "k", "l", "m", "n", "o", "p", "q", "r", "s", "t", "u", "v",
       "w", "x", "y", "z", "0", "1", "2", "3", "4", "5", "6", "7", "8", "9", "+", "/" >>

\* ------------------------------------------------------ Result and URLs

Ok(v) == [is_ok |-> TRUE, value |-> Some(v), error |-> None]
Err(e) == [is_ok |-> FALSE, value |-> None, error |-> Some(e)]

\* The first position of character c in s, 0 when it has none.
IndexOf(s, c) ==
  IF \E i \in 1..Len(s) : s[i] = c
    THEN CHOOSE i \in 1..Len(s) : s[i] = c /\ \A j \in 1..(i - 1) : s[j] # c
    ELSE 0

IsAlpha(c) == Ord(c) \in 65..90 \/ Ord(c) \in 97..122
IsDigit(c) == Ord(c) \in 48..57
ToLower(c) == IF Ord(c) \in 65..90 THEN Printable[Ord(c) + 32 - 31] ELSE c

\* The scheme of a URL as Url::parse reads it: the characters before the
\* first ":", a letter followed by letters, digits, "+", "-" or ".", in
\* lower case; None when the text does not start with a scheme.
url_scheme(s) ==
  LET colon == IndexOf(s, ":")
  IN  IF /\ colon > 1
         /\ IsAlpha(s[1])
         /\ \A i \in 1..(colon - 1) :
              IsAlpha(s[i]) \/ IsDigit(s[i]) \/ s[i] \in {"+", "-", "."}
        THEN Some([i \in 1..(colon - 1) |-> ToLower(s[i])])
        ELSE None

SpecialSchemes ==
  { <<"h", "t", "t", "p">>, <<"h", "t", "t", "p", "s">>, <<"w", "s">>,
    <<"w", "s", "s">>, <<"f", "t", "p">> }

\* The host of a URL with a special scheme: what follows the scheme and its
\* slashes, up to the next "/", "?" or "#".
RECURSIVE skip_slashes(_)
skip_slashes(s) ==
  IF Len(s) > 0 /\ Head(s) = "/" THEN skip_slashes(Tail(s)) ELSE s

url_host(s) ==
  LET rest == skip_slashes(SubSeq(s, IndexOf(s, ":") + 1, Len(s)))
      stop == { i \in 1..Len(rest) : rest[i] \in {"/", "?", "#"} }
      last == IF stop = {} THEN Len(rest)
              ELSE (CHOOSE i \in stop : \A j \in stop : i <= j) - 1
  IN  SubSeq(rest, 1, last)

\* validator's url check, Url::parse(s).is_ok(): the text has a scheme, and
\* under a special scheme a host that is not empty and holds no space.
validate_url(s) ==
  /\ IsSome(url_scheme(s))
  /\ Unwrap(url_scheme(s)) \in SpecialSchemes =>
       /\ url_host(s) # <<>>
       /\ \A i \in 1..Len(url_host(s)) : url_host(s)[i] # " "

\* ------------------------------------------------- the request (http crate)

\* HeaderValue::to_str: the value as text when every byte is visible ASCII
\* (0x20 .. 0x7E, or a tab), an error (here None) otherwise.
to_str(value) ==
  IF \A i \in 1..Len(value) : Ord(value[i]) \in 32..126
  THEN Some(value)
  ELSE None

\* HeaderMap::get, for the three headers the function reads.
get(headers, name) ==
  CASE name = "Host" -> headers.host
    [] name = "X-Twilio-Signature" -> headers.x_twilio_signature
    [] name = "Content-Type" -> headers.content_type

\* Uri::path_and_query: None for a URI in authority form (an authority and
\* no scheme); otherwise the path and query, "/" standing for an empty path.
path_and_query(u) ==
  IF IsNone(u.scheme) /\ IsSome(u.authority)
  THEN None
  ELSE Some(IF Len(u.path_and_query) = 0 THEN <<"/">> ELSE u.path_and_query)

\* ------------------------------------------- BTreeMap<String, String>

\* A BTreeMap is the sequence of its (key, value) entries in ascending key
\* order; iteration (for (key, value) in params) walks that sequence.
BTreeMap_new == <<>>

BTreeMap_insert(map, key, value) ==
  IF \E i \in 1..Len(map) : map[i].key = key
  THEN [i \in 1..Len(map) |->
          IF map[i].key = key THEN [key |-> key, value |-> value] ELSE map[i]]
  ELSE LET below == Cardinality({i \in 1..Len(map) : StrLess(map[i].key, key)})
       IN  SubSeq(map, 1, below)
             \o <<[key |-> key, value |-> value]>>
             \o SubSeq(map, below + 1, Len(map))

\* The map a caller builds by inserting the pairs of `pairs` one after another.
RECURSIVE BTreeMap_from(_)
BTreeMap_from(pairs) ==
  IF Len(pairs) = 0 THEN BTreeMap_new
  ELSE LET last == pairs[Len(pairs)]
       IN  BTreeMap_insert(BTreeMap_from(SubSeq(pairs, 1, Len(pairs) - 1)),
                           last.key, last.value)

\* ------------------------------------------------- HMAC-SHA1 and Base64

\* The digest.  SHA-1 is stood for by a 16-bit rolling hash of the bytes
\* (two bytes of output instead of twenty); what the model keeps is that the
\* digest is a function of every byte of its input, in order.
RECURSIVE Digest(_, _)
Digest(bytes, h) ==
  IF Len(bytes) = 0 THEN <<h \div 256, h % 256>>
  ELSE Digest(Tail(bytes), (h * 33 + Head(bytes)) % 65536)

Bytes(s) == [i \in 1..Len(s) |-> Ord(s[i])]

\* Hmac<Sha1>: new_from_slice(key), update(data), finalize().  The two keyed
\* passes of HMAC are kept: H((key + opad) || H((key + ipad) || data)).
\* new_from_slice accepts a key of any length, so HmacError never arises.
HmacSha1(key, data) ==
  LET ipad  == [i \in 1..Len(key) |-> (Ord(key[i]) + 54) % 256]
      opad  == [i \in 1..Len(key) |-> (Ord(key[i]) + 92) % 256]
      inner == Digest(ipad \o Bytes(data), 5381)
  IN  Digest(opad \o inner, 5381)

\* base64::engine::general_purpose::STANDARD.encode: three bytes to four
\* characters, the last group padded with "=".
RECURSIVE Base64Encode(_)
Base64Encode(bytes) ==
  LET ch(n) == Base64Alphabet[n + 1]
  IN  IF Len(bytes) = 0 THEN <<>>
      ELSE IF Len(bytes) = 1 THEN
        << ch(bytes[1] \div 4), ch((bytes[1] % 4) * 16), "=", "=" >>
      ELSE IF Len(bytes) = 2 THEN
        << ch(bytes[1] \div 4),
           ch((bytes[1] % 4) * 16 + bytes[2] \div 16),
           ch((bytes[2] % 16) * 4), "=" >>
      ELSE
        << ch(bytes[1] \div 4),
           ch((bytes[1] % 4) * 16 + bytes[2] \div 16),
           ch((bytes[2] % 16) * 4 + bytes[3] \div 64),
           ch(bytes[3] % 64) >>
          \o Base64Encode(SubSeq(bytes, 4, Len(bytes)))

\* ------------------------------------------ validate_twilio_signature

\* The loop  for (key, value) in params { push key; push value }.
RECURSIVE push_params(_, _)
push_params_separated(data, params) ==
  IF Len(params) = 0 THEN data
  ELSE push_params(data \o Head(params).key \o <<"=">> \o Head(params).value,
                   Tail(params))

push_params(data, params) ==
  IF Len(params) = 0 THEN data
  ELSE push_params(data \o Head(params).key \o Head(params).value, Tail(params))

\* let url = format!("https://{host}{}", path and query or "")
url_of_authority(host, u) ==
  s_https \o (IF IsSome(u.authority) THEN Unwrap(u.authority) ELSE host)
    \o (IF IsSome(path_and_query(u)) THEN Unwrap(path_and_query(u)) ELSE <<>>)

url(host, u) ==
  s_https \o host
    \o (IF IsSome(path_and_query(u)) THEN Unwrap(path_and_query(u)) ELSE <<>>)

\* The block  if method == Method::POST { ... }  that extends data.
data_any_method(host, method, u, headers, post_params) ==
  LET base == url(host, u)
  IN  IF IsSome(get(headers, "Content-Type"))
        THEN LET ct == to_str(Unwrap(get(headers, "Content-Type")))
                 content_type == IF IsSome(ct) THEN Unwrap(ct) ELSE <<>>
             IN  IF starts_with(content_type, s_form_urlencoded)
                      /\ IsSome(post_params)
                   THEN push_params(base, Unwrap(post_params))
                   ELSE base
        ELSE base

data_any_post(host, method, u, headers, post_params) ==
  LET base == url(host, u)
  IN  IF method = "POST" /\ IsSome(post_params)
        THEN push_params(base, Unwrap(post_params))
        ELSE base

data(host, method, u, headers, post_params) ==
  LET base == url(host, u)
  IN  IF method = "POST"
        THEN IF IsSome(get(headers, "Content-Type"))
          THEN LET ct == to_str(Unwrap(get(headers, "Content-Type")))
                   content_type == IF IsSome(ct) THEN Unwrap(ct) ELSE <<>>
               IN  IF starts_with(content_type, s_form_urlencoded)
                        /\ IsSome(post_params)
                     THEN push_params(base, Unwrap(post_params))
                     ELSE base
          ELSE base
        ELSE base

\* let computed_signature = STANDARD.encode(mac.finalize().into_bytes())
computed_signature(auth_token, d) == Base64Encode(HmacSha1(auth_token, d))

\* if signature != computed_signature { return Err(InvalidSignature) }  Ok(())
compare_prefix(signature, computed) ==
  IF ~starts_with(computed, signature) THEN "InvalidSignature" ELSE "Ok"

compare(signature, computed) ==
  IF signature # computed THEN "InvalidSignature" ELSE "Ok"

\* What a call returns, with the values it computed on the way (None for a
\* value the call returned before computing).
Returned(result, d, computed) ==
  [result |-> result, data |-> d, computed_signature |-> computed]

validate_signature_first(auth_token, method, u, headers, post_params) ==
  LET h == get(headers, "Host")
      s == get(headers, "X-Twilio-Signature")
  IN  IF IsNone(s) THEN Returned("MissingSignature", None, None)
      ELSE IF IsNone(h) THEN Returned("MissingHost", None, None)
      ELSE IF IsNone(to_str(Unwrap(h))) \/ IsNone(to_str(Unwrap(s)))
        THEN Returned("InvalidSignature", None, None)
      ELSE
        LET d == data(Unwrap(h), method, u, headers, post_params)
            c == computed_signature(auth_token, d)
        IN  Returned(compare(Unwrap(s), c), Some(d), Some(c))

validate_signature_late(auth_token, method, u, headers, post_params) ==
  LET h == get(headers, "Host")
      s == get(headers, "X-Twilio-Signature")
  IN  IF IsNone(h) THEN Returned("MissingHost", None, None)
      ELSE IF IsNone(to_str(Unwrap(h)))
        THEN Returned("InvalidSignature", None, None)
      ELSE
        LET d == data(Unwrap(h), method, u, headers, post_params)
            c == computed_signature(auth_token, d)
        IN  IF IsNone(s) THEN Returned("MissingSignature", Some(d), Some(c))
            ELSE IF IsNone(to_str(Unwrap(s)))
              THEN Returned("InvalidSignature", Some(d), Some(c))
            ELSE Returned(compare(Unwrap(s), c), Some(d), Some(c))

validate_signature_unread_as_missing(auth_token, method, u, headers, post_params) ==
  LET h == get(headers, "Host")
      s == get(headers, "X-Twilio-Signature")
  IN  IF IsNone(h) \/ IsNone(to_str(Unwrap(h)))
        THEN Returned("MissingHost", None, None)
      ELSE IF IsNone(s) \/ IsNone(to_str(Unwrap(s)))
        THEN Returned("MissingSignature", None, None)
      ELSE
        LET d == data(Unwrap(h), method, u, headers, post_params)
            c == computed_signature(auth_token, d)
        IN  Returned(compare(Unwrap(s), c), Some(d), Some(c))

validate_twilio_signature(auth_token, method, u, headers, post_params) ==
  LET h == get(headers, "Host")
      s == get(headers, "X-Twilio-Signature")
  IN  IF IsNone(h) THEN Returned("MissingHost", None, None)
      ELSE IF IsNone(to_str(Unwrap(h)))
        THEN Returned("InvalidSignature", None, None)
      ELSE IF IsNone(s) THEN Returned("MissingSignature", None, None)
      ELSE IF IsNone(to_str(Unwrap(s)))
        THEN Returned("InvalidSignature", None, None)
      ELSE
        LET d == data(Unwrap(h), method, u, headers, post_params)
            c == computed_signature(auth_token, d)
        IN  Returned(compare(Unwrap(s), c), Some(d), Some(c))

\* The test module's generate_valid_signature: the signature a sender
\* computes over a URL and, when given, the parameters (its own loop over
\* the map).
RECURSIVE generate_valid_signature_data(_, _)
generate_valid_signature_data(d, params) ==
  IF Len(params) = 0 THEN d
  ELSE generate_valid_signature_data(
         d \o Head(params).key \o Head(params).value, Tail(params))

generate_valid_signature(auth_token, full_url, params) ==
  Base64Encode(HmacSha1(auth_token,
    IF IsSome(params)
      THEN generate_valid_signature_data(full_url, Unwrap(params))
      ELSE full_url))

\* ------------------------------------------------------- twiml::voice

\* Stream::new
Stream_new(u) ==
  [type |-> "Stream", url |-> u, name |-> None, track |-> None,
   status_callback |-> None, status_callback_method |-> None,
   parameters |-> None]

\* Parameter::new
Parameter_new(name, value) == [name |-> name, value |-> value]

\* Number::new
Number_new(number) ==
  [type |-> "Number", number |-> number, action |-> None, method |-> None]

\* Conference::new
Conference_new(name) ==
  [type |-> "Conference", name |-> name, muted |-> None, beep |-> None,
   start_conference_on_enter |-> None, end_conference_on_exit |-> None,
   participant_label |-> None, jitter_buffer_size |-> None,
   wait_url |-> None, wait_method |-> None, max_participants |-> None,
   record |-> None, region |-> None, trim |-> None, coach |-> None,
   status_callback |-> None, status_callback_event |-> None,
   status_callback_method |-> None, recording_status_callback |-> None,
   recording_status_callback_method |-> None,
   recording_status_callback_event |-> None]

\* Dial::new
Dial_new(noun) ==
  [noun |-> noun, action |-> None, answer_on_bridge |-> None,
   caller_id |-> None, call_reason |-> None, hangup_on_star |-> None,
   method |-> None, record |-> None, recording_status_callback |-> None,
   recording_status_callback_method |-> None,
   recording_status_callback_event |-> None, recording_track |-> None,
   refer_url |-> None, refer_method |-> None, ring_tone |-> None,
   time_limit |-> None, timeout |-> None, trim |-> None,
   sequential |-> None]

\* enum Verb
Connect(noun) == [verb |-> "Connect", noun |-> noun]
Dial(dial) == [verb |-> "Dial", dial |-> dial]
Reject == [verb |-> "Reject"]

\* ------------------------------------------------------------ validation

\* A validator::ValidationError under the field it was added to: its code
\* and its message (a text and the value the text is about).
FieldError(field, code, text, about) ==
  [field |-> field, code |-> code, message |-> [text |-> text, about |-> about]]

\* The error a failed validate() converts to through `?`: the field errors.
ValidationFailed(errors) == [kind |-> "Validation", errors |-> errors]
UnsupportedNoun == [kind |-> "UnsupportedNoun", errors |-> {}]

\* TwilioError::InvalidCallbackUrl, which nothing constructs.
InvalidCallbackUrl == [kind |-> "InvalidCallbackUrl", errors |-> {}]

\* Result of a derived validate(): Ok(()) when no field has an error.
Validated(errors) ==
  IF errors = {} THEN Ok("unit") ELSE Err(ValidationFailed(errors))

\* fn validate_wss_url
validate_wss_url_unchecked(u) == Ok("unit")

validate_wss_url_by_scheme(u) ==
  IF url_scheme(u) # Some(<<"w", "s", "s">>)
    THEN Err(FieldError("url", "invalid_websocket_url",
                        "URL must start with 'wss://'", <<>>))
    ELSE Ok("unit")

validate_wss_url(u) ==
  IF ~starts_with(u, s_wss)
    THEN Err(FieldError("url", "invalid_websocket_url",
                        "URL must start with 'wss://'", <<>>))
    ELSE Ok("unit")

s_in_progress == <<"i", "n", "-", "p", "r", "o", "g", "r", "e", "s", "s">>
s_completed == <<"c", "o", "m", "p", "l", "e", "t", "e", "d">>
s_absent == <<"a", "b", "s", "e", "n", "t">>

\* fn validate_recording_status_callback_event
validate_recording_status_callback_event_ignoring_case(event) ==
  LET valid_events == {s_in_progress, s_completed, s_absent}
  IN  IF [ i \in 1..Len(event) |-> ToLower(event[i]) ] \notin valid_events
        THEN Err(FieldError("recording_status_callback_event",
                            "invalid_recording_status_callback_event",
                            "Invalid recording status callback event: ", event))
        ELSE Ok("unit")

validate_recording_status_callback_event(event) ==
  LET valid_events == {s_in_progress, s_completed, s_absent}
  IN  IF event \notin valid_events
        THEN Err(FieldError("recording_status_callback_event",
                            "invalid_recording_status_callback_event",
                            "Invalid recording status callback event: ", event))
        ELSE Ok("unit")

\* char::is_whitespace: the space, and the characters written here "0x09"
\* (tab), "0x0A" (line feed), "0x0C" (form feed), "0x0D" (carriage return).
WhiteSpace == {" ", "0x09", "0x0A", "0x0C", "0x0D"}

\* str::split_whitespace: the maximal runs of characters that are not
\* whitespace.
RECURSIVE split_whitespace(_)
split_whitespace(s) ==
  LET start == { i \in 1..Len(s) : s[i] \notin WhiteSpace }
  IN  IF start = {} THEN <<>>
      ELSE LET b == CHOOSE i \in start : \A j \in start : i <= j
               ends == { i \in b..Len(s) : s[i] \in WhiteSpace }
               e == IF ends = {} THEN Len(s) + 1
                    ELSE CHOOSE i \in ends : \A j \in ends : i <= j
           IN  <<SubSeq(s, b, e - 1)>> \o split_whitespace(SubSeq(s, e, Len(s)))

StatusCallbackEvents ==
  { <<"s", "t", "a", "r", "t">>, <<"e", "n", "d">>, <<"j", "o", "i", "n">>,
    <<"l", "e", "a", "v", "e">>, <<"m", "u", "t", "e">>, <<"h", "o", "l", "d">>,
    <<"m", "o", "d", "i", "f", "y">>, <<"s", "p", "e", "a", "k", "e", "r">>,
    <<"a", "n", "n", "o", "u", "n", "c", "e", "m", "e", "n", "t">> }

\* fn validate_status_callback_event
validate_status_callback_event_last(event) ==
  LET events == split_whitespace(event)
      bad == { i \in 1..Len(events) : events[i] \notin StatusCallbackEvents }
  IN  IF bad = {} THEN Ok("unit")
      ELSE LET last == CHOOSE i \in bad : \A j \in bad : i >= j
           IN  Err(FieldError("status_callback_event",
                              "invalid_status_callback_event",
                              "Invalid status callback event: ", events[last]))

validate_status_callback_event(event) ==
  LET events == split_whitespace(event)
      bad == { i \in 1..Len(events) : events[i] \notin StatusCallbackEvents }
  IN  IF bad = {} THEN Ok("unit")
      ELSE LET first == CHOOSE i \in bad : \A j \in bad : i <= j
           IN  Err(FieldError("status_callback_event",
                              "invalid_status_callback_event",
                              "Invalid status callback event: ", events[first]))

\* The field errors the result of a custom validator adds; an optional
\* field is handed to its validator only when it is present.
custom(result) ==
  IF ~result.is_ok THEN { Unwrap(result.error) } ELSE {}

\* #[derive(Validate)] for Stream: url (url, custom validate_wss_url),
\* status_callback (url).
Stream_validate_without_callback(stream) ==
  Validated(
    (IF ~validate_url(stream.url)
       THEN { FieldError("url", "url", "", <<>>) } ELSE {})
    \cup custom(validate_wss_url(stream.url)))

Stream_validate(stream) ==
  Validated(
    (IF ~validate_url(stream.url)
       THEN { FieldError("url", "url", "", <<>>) } ELSE {})
    \cup custom(validate_wss_url(stream.url))
    \cup (IF IsSome(stream.status_callback)
             /\ ~validate_url(Unwrap(stream.status_callback))
            THEN { FieldError("status_callback", "url", "", <<>>) } ELSE {}))

\* #[derive(Validate)] for Conference: participant_label (length max 128),
\* max_participants (range max 250), status_callback_event and
\* recording_status_callback_event (custom).
Conference_validate_label_exclusive(conference) ==
  Validated(
    (IF IsSome(conference.participant_label)
          /\ Len(Unwrap(conference.participant_label)) >= 128
       THEN { FieldError("participant_label", "length", "", <<>>) } ELSE {})
    \cup (IF IsSome(conference.max_participants)
               /\ Unwrap(conference.max_participants) > 250
            THEN { FieldError("max_participants", "range", "", <<>>) } ELSE {})
    \cup (IF IsSome(conference.status_callback_event)
            THEN custom(validate_status_callback_event(
                          Unwrap(conference.status_callback_event)))
            ELSE {})
    \cup (IF IsSome(conference.recording_status_callback_event)
            THEN custom(validate_recording_status_callback_event(
                          Unwrap(conference.recording_status_callback_event)))
            ELSE {}))

Conference_validate_range_exclusive(conference) ==
  Validated(
    (IF IsSome(conference.participant_label)
          /\ Len(Unwrap(conference.participant_label)) > 128
       THEN { FieldError("participant_label", "length", "", <<>>) } ELSE {})
    \cup (IF IsSome(conference.max_participants)
               /\ Unwrap(conference.max_participants) >= 250
            THEN { FieldError("max_participants", "range", "", <<>>) } ELSE {})
    \cup (IF IsSome(conference.status_callback_event)
            THEN custom(validate_status_callback_event(
                          Unwrap(conference.status_callback_event)))
            ELSE {})
    \cup (IF IsSome(conference.recording_status_callback_event)
            THEN custom(validate_recording_status_callback_event(
                          Unwrap(conference.recording_status_callback_event)))
            ELSE {}))

Conference_validate(conference) ==
  Validated(
    (IF IsSome(conference.participant_label)
          /\ Len(Unwrap(conference.participant_label)) > 128
       THEN { FieldError("participant_label", "length", "", <<>>) } ELSE {})
    \cup (IF IsSome(conference.max_participants)
               /\ Unwrap(conference.max_participants) > 250
            THEN { FieldError("max_participants", "range", "", <<>>) } ELSE {})
    \cup (IF IsSome(conference.status_callback_event)
            THEN custom(validate_status_callback_event(
                          Unwrap(conference.status_callback_event)))
            ELSE {})
    \cup (IF IsSome(conference.recording_status_callback_event)
            THEN custom(validate_recording_status_callback_event(
                          Unwrap(conference.recording_status_callback_event)))
            ELSE {}))

\* #[derive(Validate)] for Dial: recording_status_callback_event (custom).
Dial_validate(dial) ==
  Validated(
    IF IsSome(dial.recording_status_callback_event)
      THEN custom(validate_recording_status_callback_event(
                    Unwrap(dial.recording_status_callback_event)))
      ELSE {})

\* ------------------------------------------------------------- writing

\* The events handed to the EventWriter, in order; the writer puts the XML
\* declaration before the first of them.
StartElement(name, attributes) ==
  [event |-> "start_element", name |-> name, attributes |-> attributes,
   text |-> <<>>]
EndElement ==
  [event |-> "end_element", name |-> "", attributes |-> <<>>, text |-> <<>>]
Characters(text) ==
  [event |-> "characters", name |-> "", attributes |-> <<>>, text |-> text]
Declaration ==
  [event |-> "declaration", name |-> "", attributes |-> <<>>, text |-> <<>>]

\* EventWriter::new(Vec::new())
EventWriter_new == <<>>

\* EventWriter::write
write(writer, event) ==
  (IF writer = <<>> THEN <<Declaration>> ELSE <<>>) \o writer \o <<event>>

RECURSIVE write_all(_, _)
write_all(writer, events) ==
  IF Len(events) = 0 THEN writer
  ELSE write_all(write(writer, Head(events)), Tail(events))

\* u32::to_string: the decimal digits.
RECURSIVE u32_to_string(_)
u32_to_string(n) ==
  LET digit == <<"0", "1", "2", "3", "4", "5", "6", "7", "8", "9">>[(n % 10) + 1]
  IN  IF n < 10 THEN <<digit>> ELSE u32_to_string(n \div 10) \o <<digit>>

\* bool::to_string
bool_to_string(b) ==
  IF b THEN <<"t", "r", "u", "e">> ELSE <<"f", "a", "l", "s", "e">>

\* enum Track, #[strum(serialize_all = "snake_case")] Display
Track_to_string(track) ==
  CASE track = "InboundTrack" ->
         <<"i", "n", "b", "o", "u", "n", "d", "_", "t", "r", "a", "c", "k">>
    [] track = "OutboundTrack" ->
         <<"o", "u", "t", "b", "o", "u", "n", "d", "_", "t", "r", "a", "c", "k">>
    [] track = "BothTracks" ->
         <<"b", "o", "t", "h", "_", "t", "r", "a", "c", "k", "s">>

\* The text an attribute is written with, by the type of its field.
attribute_text(type, v) ==
  CASE type = "String" -> v
    [] type = "bool" -> bool_to_string(v)
    [] type = "u32" -> u32_to_string(v)
    [] type = "Track" -> Track_to_string(v)

\* The attributes of #[xml(attribute = "...")] fields: for each (field,
\* name, type) of `declared`, in order, the name and the text of a field that
\* is Some.
xml_attributes_all(value, declared) ==
  [ i \in 1..Len(declared) |->
      << declared[i][2],
         IF IsSome(value[declared[i][1]])
           THEN attribute_text(declared[i][3], Unwrap(value[declared[i][1]]))
           ELSE <<>> >> ]

RECURSIVE xml_attributes(_, _)
xml_attributes(value, declared) ==
  IF Len(declared) = 0 THEN <<>>
  ELSE (IF IsSome(value[Head(declared)[1]])
          THEN << << Head(declared)[2],
                     attribute_text(Head(declared)[3],
                                    Unwrap(value[Head(declared)[1]])) >> >>
          ELSE <<>>)
         \o xml_attributes(value, Tail(declared))

\* The #[xml(attribute = "...")] fields of struct Stream, after url, as
\* declared: the field, the attribute it is written as, and the type under its Option.
Stream_attributes ==
  << <<"name", "name", "String">>, <<"track", "track", "Track">>,
     <<"status_callback", "statusCallback", "String">>,
     <<"status_callback_method", "statusCallbackMethod", "String">> >>

\* The #[xml(attribute = "...")] fields of struct Number, as declared: the
\* field, the attribute it is written as, and the type under its Option.
Number_attributes ==
  << <<"action", "action", "String">>, <<"method", "method", "String">> >>

\* The #[xml(attribute = "...")] fields of struct Conference, as
\* declared: the field, the attribute it is written as, and the type under its Option.
Conference_attributes ==
  << <<"muted", "muted", "bool">>, <<"beep", "beep", "String">>,
     <<"start_conference_on_enter", "startConferenceOnEnter", "bool">>,
     <<"end_conference_on_exit", "endConferenceOnExit", "bool">>,
     <<"participant_label", "participantLabel", "String">>,
     <<"jitter_buffer_size", "jitterBufferSize", "String">>,
     <<"wait_url", "waitUrl", "String">>, <<"wait_method", "waitMethod", "String">>,
     <<"max_participants", "maxParticipants", "u32">>,
     <<"record", "record", "String">>, <<"region", "region", "String">>,
     <<"trim", "trim", "String">>, <<"coach", "coach", "String">>,
     <<"status_callback", "statusCallback", "String">>,
     <<"status_callback_event", "statusCallbackEvent", "String">>,
     <<"status_callback_method", "statusCallbackMethod", "String">>,
     <<"recording_status_callback", "recordingStatusCallback", "String">>,
     <<"recording_status_callback_method",
        "recordingStatusCallbackMethod", "String">>,
     <<"recording_status_callback_event",
        "recordingStatusCallbackEvent", "String">> >>

\* The #[xml(attribute = "...")] fields of struct Dial, as declared: the
\* field, the attribute it is written as, and the type under its Option.
Dial_attributes ==
  << <<"action", "action", "String">>,
     <<"answer_on_bridge", "answerOnBridge", "bool">>,
     <<"caller_id", "callerId", "String">>, <<"call_reason", "callReason", "String">>,
     <<"hangup_on_star", "hangupOnStar", "bool">>, <<"method", "method", "String">>,
     <<"record", "record", "String">>,
     <<"recording_status_callback", "recordingStatusCallback", "String">>,
     <<"recording_status_callback_method",
        "recordingStatusCallbackMethod", "String">>,
     <<"recording_status_callback_event",
        "recordingStatusCallbackEvent", "String">>,
     <<"recording_track", "recordingTrack", "String">>,
     <<"refer_url", "referUrl", "String">>, <<"refer_method", "referMethod", "String">>,
     <<"ring_tone", "ringTone", "String">>, <<"time_limit", "timeLimit", "u32">>,
     <<"timeout", "timeout", "u32">>, <<"trim", "trim", "String">>,
     <<"sequential", "sequential", "bool">> >>

\* #[derive(ToTwiML)] for Parameter
Parameter_write_xml(parameter) ==
  << StartElement("Parameter", << <<"name", parameter.name>>,
                                  <<"value", parameter.value>> >>),
     EndElement >>

RECURSIVE Parameters_write_xml(_)
Parameters_write_xml_reversed(parameters) ==
  IF Len(parameters) = 0 THEN <<>>
  ELSE Parameters_write_xml(Tail(parameters))
         \o Parameter_write_xml(Head(parameters))

\* The #[xml(content)] list of a Stream: each Parameter, in list order.
Parameters_write_xml(parameters) ==
  IF Len(parameters) = 0 THEN <<>>
  ELSE Parameter_write_xml(Head(parameters))
         \o Parameters_write_xml(Tail(parameters))

\* #[derive(ToTwiML)] for Stream
Stream_write_xml(stream) ==
  << StartElement("Stream",
       << <<"url", stream.url>> >>
         \o xml_attributes(stream, Stream_attributes)) >>
    \o (IF IsSome(stream.parameters)
          THEN Parameters_write_xml(Unwrap(stream.parameters)) ELSE <<>>)
    \o << EndElement >>

\* #[derive(ToTwiML)] for Number
Number_write_xml(number) ==
  << StartElement("Number",
       xml_attributes(number, Number_attributes)),
     Characters(number.number),
     EndElement >>

\* #[derive(ToTwiML)] for Conference
Conference_write_xml(conference) ==
  << StartElement("Conference",
       xml_attributes(conference, Conference_attributes)),
     Characters(conference.name),
     EndElement >>

\* impl ToTwiML for Noun
Noun_write_xml(noun) ==
  CASE noun.type = "Stream" -> Stream_write_xml(noun)
    [] noun.type = "Conference" -> Conference_write_xml(noun)
    [] noun.type = "Number" -> Number_write_xml(noun)

\* #[derive(ToTwiML)] for Dial
Dial_write_xml(dial) ==
  << StartElement("Dial",
       xml_attributes(dial, Dial_attributes)) >>
    \o Noun_write_xml(dial.noun)
    \o << EndElement >>

\* impl ToTwiML for Verb
Verb_write_xml(verb) ==
  CASE verb.verb = "Connect" ->
         << StartElement("Connect", <<>>) >> \o Noun_write_xml(verb.noun)
           \o << EndElement >>
    [] verb.verb = "Dial" -> Dial_write_xml(verb.dial)
    [] verb.verb = "Reject" -> << StartElement("Reject", <<>>), EndElement >>

\* ------------------------------------------------------- VoiceResponse

\* The match of to_bytes on a verb: Ok(()) when the loop goes on to write
\* the verb, the error the `?` returns otherwise.
match_verb_connect_any(verb) ==
  CASE verb.verb = "Connect" ->
         (CASE verb.noun.type = "Stream" -> Stream_validate(verb.noun)
            [] verb.noun.type = "Conference" -> Conference_validate(verb.noun)
            [] OTHER -> Ok("unit"))
    [] verb.verb = "Dial" ->
         (CASE verb.dial.noun.type = "Conference" ->
                 Conference_validate(verb.dial.noun)
            [] verb.dial.noun.type = "Number" -> Ok("unit")
            [] OTHER -> Err(UnsupportedNoun))
    [] verb.verb = "Reject" -> Ok("unit")

match_verb_dial_any(verb) ==
  CASE verb.verb = "Connect" ->
         (CASE verb.noun.type = "Stream" -> Stream_validate(verb.noun)
            [] OTHER -> Err(UnsupportedNoun))
    [] verb.verb = "Dial" ->
         (CASE verb.dial.noun.type = "Conference" ->
                 Conference_validate(verb.dial.noun)
            [] verb.dial.noun.type = "Number" -> Ok("unit")
            [] OTHER -> Stream_validate(verb.dial.noun))
    [] verb.verb = "Reject" -> Ok("unit")

match_verb(verb) ==
  CASE verb.verb = "Connect" ->
         (CASE verb.noun.type = "Stream" -> Stream_validate(verb.noun)
            [] OTHER -> Err(UnsupportedNoun))
    [] verb.verb = "Dial" ->
         (CASE verb.dial.noun.type = "Conference" ->
                 Conference_validate(verb.dial.noun)
            [] verb.dial.noun.type = "Number" -> Ok("unit")
            [] OTHER -> Err(UnsupportedNoun))
    [] verb.verb = "Reject" -> Ok("unit")

\* The loop of to_bytes from verb i on: what the call returns, the writer as
\* it stands when the call returns (dropped with an error), and how many
\* verbs the loop has matched.
RECURSIVE to_bytes_loop(_, _, _)
RECURSIVE to_bytes_loop_backwards(_, _, _)
to_bytes_loop_backwards(vs, i, writer) ==
  IF i > Len(vs)
    THEN LET done == write(writer, EndElement)
         IN  [result |-> Ok(done), writer |-> done, matched |-> i - 1]
    ELSE LET verb == vs[Len(vs) + 1 - i]
             checked == match_verb(verb)
         IN  IF ~checked.is_ok
               THEN [result |-> Err(Unwrap(checked.error)), writer |-> writer,
                     matched |-> i]
               ELSE to_bytes_loop_backwards(vs, i + 1,
                      write_all(writer, Verb_write_xml(verb)))

to_bytes_loop(vs, i, writer) ==
  IF i > Len(vs)
    THEN LET done == write(writer, EndElement)
         IN  [result |-> Ok(done), writer |-> done, matched |-> i - 1]
    ELSE LET checked == match_verb(vs[i])
         IN  IF ~checked.is_ok
               THEN [result |-> Err(Unwrap(checked.error)), writer |-> writer,
                     matched |-> i]
               ELSE to_bytes_loop(vs, i + 1,
                                  write_all(writer, Verb_write_xml(vs[i])))

\* VoiceResponse::to_bytes
to_bytes_partial(vs) ==
  LET run == to_bytes_loop(vs, 1,
               write(EventWriter_new, StartElement("Response", <<>>)))
  IN  IF run.result.is_ok THEN run.result
      ELSE Ok(write(run.writer, EndElement))

to_bytes(vs) ==
  to_bytes_loop(vs, 1,
                write(EventWriter_new, StartElement("Response", <<>>))).result

\* VoiceResponse::to_string: String::from_utf8 of what the writer wrote,
\* which is UTF-8.
to_string(vs) == to_bytes(vs)

\* VoiceResponse::to_http_response
to_http_response_as_text(vs) ==
  IF to_bytes(vs).is_ok
    THEN Ok([body |-> Unwrap(to_bytes(vs).value),
             headers |-> [content_type |-> "text/xml"]])
    ELSE to_bytes(vs)

to_http_response(vs) ==
  IF to_bytes(vs).is_ok
    THEN Ok([body |-> Unwrap(to_bytes(vs).value),
             headers |-> [content_type |-> "application/xml"]])
    ELSE to_bytes(vs)

\* ----------------------------------------------------------------- bounds

\* The longest sequence of insertions that builds a parameter map.
MaxParams == 2
\* The most verbs a response is built with.
MaxVerbs == 2

\* ------------------------------------------------------------------ state

VARIABLES
  request,     \* the arguments of a validate_twilio_signature call
  inserted,    \* the insertions the caller built post_params with, if any
  returned,    \* what the call returned: None while it has not run
  verbs,       \* VoiceResponse.verbs
  serialized,  \* what the last to_bytes / to_string / to_http_response of
               \* the response as it now stands returned, if any
  called,      \* the verb the last builder call was made to append, if any
  vocabulary,  \* which of the sets of values the caller builds verbs from
  calls,       \* per caller, the call it is in: the arguments, the position
               \* in the function body and the local variables
  client       \* the TwilioClient

vars ==
  <<request, inserted, returned, verbs, serialized, called, vocabulary, calls,
    client>>

\* ------------------------------------------------- inputs of validation

AuthTokens == { <<"t", "o", "k">>, <<"k", "2">> }
Methods == {"GET", "POST"}

host_name == <<"h", ".", "i", "o">>
other_host == <<"x", ".", "i", "o">>

Uri(scheme, authority, pq) ==
  [scheme |-> scheme, authority |-> authority, path_and_query |-> pq]

Uris ==
  { Uri(Some("https"), Some(host_name), <<"/", "w", "?", "a", "=", "1">>),
    Uri(Some("http"), Some(other_host), <<"/", "w", "?", "a", "=", "1">>),
    Uri(None, None, <<"/", "w">>),
    Uri(None, Some(host_name), <<>>) }

HostHeaders ==
  { None, Some(host_name), Some(other_host), Some(<<"h", OpaqueByte>>) }

ContentTypeHeaders ==
  { None,
    Some(s_form_urlencoded \o <<";", " ", "c", "h", "a", "r", "s", "e", "t", "=", "U", "T", "F", "-", "8">>),
    Some(<<"t", "e", "x", "t", "/">> \o s_form_urlencoded),
    Some(s_form_urlencoded \o <<";", OpaqueByte>>) }

Pair(k, v) == [key |-> k, value |-> v]

\* {"a": "bc"} and {"ab": "c"} concatenate alike; "Z" sorts below "a".
Pairs ==
  { Pair(<<"a">>, <<"b", "c">>), Pair(<<"a", "b">>, <<"c">>), Pair(<<"Z">>, <<"1">>) }

\* The sequences of insertions, under distinct keys, a caller builds a
\* parameter map with.
Insertions ==
  { s \in UNION { [1..k -> Pairs] : k \in 0..MaxParams } :
      \A i, j \in 1..Len(s) : i # j => s[i].key # s[j].key }

\* The sender signs the URL it calls: https, its own name for the host, and
\* the path and query of the request.
signed_url(u) ==
  s_https \o host_name
    \o (IF IsSome(path_and_query(u)) THEN Unwrap(path_and_query(u)) ELSE <<>>)

\* A signature with the character at position i replaced by another one.
Flip(sig, i) ==
  [sig EXCEPT ![i] =
     IF sig[i] = "=" THEN "A"
     ELSE LET n == CHOOSE k \in 1..64 : Base64Alphabet[k] = sig[i]
          IN  Base64Alphabet[(n % 64) + 1]]

\* The X-Twilio-Signature headers a request may arrive with: none, the
\* sender's signature over the URL alone or over the URL and the parameters,
\* the latter with one character changed or with its padding cut off, a value
\* that is no signature, and a value that is not text.
SignatureHeaders(auth_token, u, post_params) ==
  LET s_url    == generate_valid_signature(auth_token, signed_url(u), None)
      s_params == generate_valid_signature(auth_token, signed_url(u), post_params)
  IN  { None, Some(s_url), Some(s_params),
        Some(<<"i", "n", "v", "a", "l", "i", "d">>),
        Some(<<"A", OpaqueByte>>) }
        \cup { Some(Flip(s_params, i)) : i \in 1..Len(s_params) }
        \cup { Some(SubSeq(s_params, 1, Len(s_params) - 1)) }

Headers(host, signature, content_type) ==
  [host |-> host, x_twilio_signature |-> signature,
   content_type |-> content_type]

\* ---------------------------------------------------- inputs of building

wss_url == s_wss \o <<"h", "/", "c">>
https_url == s_https \o <<"h", "/", "c">>

\* The urls a Stream is given: a wss URL, the same under https, the same with
\* the scheme in capitals, a text with no scheme, and "wss://" with no host.
StreamUrls ==
  { wss_url, https_url, <<"W", "S", "S", ":", "/", "/", "h", "/", "c">>,
    <<"h", "/", "c">>, s_wss }

\* A status callback that is a URL, and one that is not.
callback_url == s_https \o <<"h", "/", "c", "b">>
callback_path == <<"c", "b">>

Streams ==
  { Stream_new(u) : u \in StreamUrls }
    \cup { [Stream_new(wss_url) EXCEPT !.status_callback = Some(callback_url)],
           [Stream_new(wss_url) EXCEPT !.status_callback = Some(callback_path)],
           [Stream_new(https_url) EXCEPT
              !.status_callback = Some(callback_path)] }

room == <<"R", "o", "o", "m">>
s_bogus == <<"b", "o", "g", "u", "s">>

Conferences ==
  { Conference_new(room),
    [Conference_new(room) EXCEPT
       !.recording_status_callback_event = Some(s_bogus)] }

Numbers == { Number_new(<<"4", "1", "5">>) }

Nouns == Streams \cup Conferences \cup Numbers

\* The values given for Dial.recording_status_callback_event: the three the
\* validator accepts, one it does not, and one that differs in case only.
RecordingEvents ==
  { s_in_progress, s_completed, s_absent, s_bogus,
    <<"C", "o", "m", "p", "l", "e", "t", "e", "d">> }

Dials ==
  { Dial_new(n) :
      n \in Conferences \cup Numbers
              \cup { Stream_new(wss_url), Stream_new(https_url) } }
    \cup { [Dial_new(n) EXCEPT !.recording_status_callback_event = Some(e)] :
             n \in Numbers, e \in RecordingEvents }
    \cup { [Dial_new(Conference_new(room)) EXCEPT
              !.recording_status_callback_event = Some(e)] :
             e \in {s_completed, s_bogus} }
    \cup { [Dial_new(Stream_new(wss_url)) EXCEPT
              !.recording_status_callback_event = Some(s_bogus)],
           [Dial_new(Stream_new(https_url)) EXCEPT
              !.recording_status_callback_event = Some(s_completed)] }

Verbs ==
  { Connect(n) : n \in Nouns } \cup { Dial(d) : d \in Dials } \cup { Reject }

\* ------------------------------------------- inputs of Conference fields

\* A text of n characters.
TextOfLength(n) == [ i \in 1..n |-> "a" ]

s_start_end == <<"s", "t", "a", "r", "t", " ", "e", "n", "d">>
s_nope == <<"n", "o", "p", "e">>

\* The values given for Conference.status_callback_event: two valid events;
\* valid events around two invalid ones; no event at all; valid events with
\* whitespace of every kind before, between and after; an event in capitals;
\* and an invalid event after a valid one and a tab.
StatusEvents ==
  { s_start_end,
    <<"e", "n", "d", " ">> \o s_bogus \o <<" ">> \o s_nope \o <<" ", "e", "n", "d">>,
    <<>>,
    <<" ", " ">>,
    <<" ", "j", "o", "i", "n", "0x09", "0x0A", "m", "u", "t", "e", "0x0D">>,
    <<"S", "t", "a", "r", "t">>,
    <<"e", "n", "d", "0x09">> \o s_nope }

\* The Conferences a Dial is given, one field set in each: the recording
\* events, the status events, labels around the longest allowed, participant
\* numbers around the largest allowed; and two with several fields invalid.
DialConferences ==
  { [Conference_new(room) EXCEPT !.recording_status_callback_event = Some(e)] :
      e \in RecordingEvents \cup { <<>> } }
    \cup { [Conference_new(room) EXCEPT !.status_callback_event = Some(e)] :
             e \in StatusEvents }
    \cup { [Conference_new(room) EXCEPT !.participant_label = Some(TextOfLength(n))] :
             n \in {0, 128, 129} }
    \cup { [Conference_new(room) EXCEPT !.max_participants = Some(n)] :
             n \in {0, 250, 251, 1000} }
    \cup { [Conference_new(room) EXCEPT
              !.participant_label = Some(TextOfLength(129)),
              !.max_participants = Some(251)],
           [Conference_new(room) EXCEPT
              !.status_callback_event = Some(s_nope),
              !.recording_status_callback_event = Some(s_bogus),
              !.max_participants = Some(250)] }

\* The Conferences of DialConferences that set one of the fields.
Setting(fields) ==
  { c \in DialConferences : \E f \in fields : IsSome(c[f]) }

EventVerbs ==
  { Dial(Dial_new(c)) :
      c \in Setting({"status_callback_event",
                     "recording_status_callback_event"}) }
    \cup { Dial(Dial_new(Conference_new(room))), Reject,
           Connect(Stream_new(https_url)) }

LimitVerbs ==
  { Dial(Dial_new(c)) : c \in Setting({"participant_label", "max_participants"}) }
    \cup { Dial(Dial_new(Conference_new(room))), Reject,
           Connect(Stream_new(https_url)) }

\* ---------------------------------------------- inputs of what is written

s_name == <<"n", "m">>
s_POST == <<"P", "O", "S", "T">>
ftp_url == <<"f", "t", "p", ":", "/", "/", "h", "/", "c", "b">>

first_parameter == Parameter_new(<<"F">>, <<"J">>)
last_parameter == Parameter_new(<<"L">>, <<"D">>)

\* Streams with attributes and parameters: every attribute; a name that is
\* the empty text; a status callback under another scheme; no, one and two
\* parameters; parameters in the two orders; parameters and attributes.
WrittenStreams ==
  { [Stream_new(wss_url) EXCEPT
       !.name = Some(s_name), !.track = Some("InboundTrack"),
       !.status_callback = Some(callback_url),
       !.status_callback_method = Some(s_POST)],
    [Stream_new(wss_url) EXCEPT !.name = Some(<<>>)],
    [Stream_new(wss_url) EXCEPT !.status_callback = Some(ftp_url)],
    [Stream_new(wss_url) EXCEPT !.status_callback = Some(callback_path)],
    [Stream_new(wss_url) EXCEPT !.parameters = Some(<<>>)],
    [Stream_new(wss_url) EXCEPT !.parameters = Some(<<first_parameter>>)],
    [Stream_new(wss_url) EXCEPT
       !.parameters = Some(<<first_parameter, last_parameter>>)],
    [Stream_new(wss_url) EXCEPT
       !.parameters = Some(<<last_parameter, first_parameter>>)],
    [Stream_new(wss_url) EXCEPT
       !.track = Some("BothTracks"), !.status_callback_method = Some(s_POST),
       !.parameters = Some(<<first_parameter, first_parameter>>)],
    Stream_new(wss_url) }

\* Dials with attributes, of Numbers and Conferences with attributes.
WrittenDials ==
  { [Dial_new(Number_new(<<"4", "1", "5">>)) EXCEPT
       !.action = Some(callback_path), !.method = Some(s_POST)],
    [Dial_new([Number_new(<<"4", "1", "5">>) EXCEPT !.method = Some(s_POST)])
       EXCEPT !.sequential = Some(TRUE), !.time_limit = Some(60),
              !.answer_on_bridge = Some(FALSE)],
    [Dial_new([Number_new(<<"4", "1", "5">>) EXCEPT
                 !.action = Some(<<>>), !.method = Some(s_POST)])
       EXCEPT !.trim = Some(s_name)],
    Dial_new([Conference_new(room) EXCEPT
                !.start_conference_on_enter = Some(TRUE),
                !.end_conference_on_exit = Some(TRUE)]),
    Dial_new([Conference_new(room) EXCEPT
                !.muted = Some(FALSE), !.max_participants = Some(10),
                !.status_callback = Some(callback_url),
                !.status_callback_event = Some(s_start_end)]),
    Dial_new(Number_new(<<"4", "1", "5">>)) }

WrittenVerbs ==
  { Connect(s) : s \in WrittenStreams } \cup { Dial(d) : d \in WrittenDials }
    \cup { Reject, Connect(Conference_new(room)) }

\* The verbs of Verbs that are a Connect, with a Reject and an invalid Dial;
\* and those that are a Dial, with a Reject and an invalid Connect.
ConnectVerbs ==
  { v \in Verbs : v.verb = "Connect" }
    \cup { Reject, Dial(Dial_new(Stream_new(wss_url))) }

DialVerbs ==
  { v \in Verbs : v.verb = "Dial" }
    \cup { Reject, Connect(Stream_new(https_url)) }

\* The sets of values a caller builds its verbs from.
Vocabularies == {"connects", "dials", "events", "limits", "written"}

VerbsOf(v) ==
  CASE v = "connects" -> ConnectVerbs
    [] v = "dials" -> DialVerbs
    [] v = "events" -> EventVerbs
    [] v = "limits" -> LimitVerbs
    [] v = "written" -> WrittenVerbs

\* The nouns connect() is called with, and the Dials dial() is called with
\* (a Number or a Conference is made a Dial by From).
NounsOf(v) == { verb.noun : verb \in { w \in VerbsOf(v) : w.verb = "Connect" } }
DialsOf(v) == { verb.dial : verb \in { w \in VerbsOf(v) : w.verb = "Dial" } }

\* ------------------------------------------------------ specifications

IdleRequest ==
  [auth_token |-> <<>>, method |-> "GET", uri |-> Uri(None, None, <<>>),
   headers |-> Headers(None, None, None), post_params |-> None]

\* TwilioClient::new (the reqwest::Client it holds is left out)
TwilioClient_new(account_sid, auth_token) ==
  [account_sid |-> account_sid, auth_token |-> auth_token,
   main_api_key |-> None, main_api_key_secret |-> None, number |-> None,
   region |-> "UnitedStates"]

\* The threads that call into the library at the same time.
Callers == {"a", "b"}

\* A caller that is in no call: no argument and no local variable is kept.
NoCall ==
  [op |-> "none", pc |-> "none", verbs |-> <<>>, request |-> IdleRequest,
   i |-> 0, writer |-> EventWriter_new, host |-> None, signature |-> None,
   data |-> None, result |-> None]

\* A webhook request arrives: every combination of the inputs.
ValidationInit ==
  /\ \E auth_token \in AuthTokens, method \in Methods, u \in Uris,
        host \in HostHeaders, content_type \in ContentTypeHeaders,
        ins \in {None} \cup { Some(s) : s \in Insertions } :
       LET post_params == IF IsSome(ins) THEN Some(BTreeMap_from(Unwrap(ins)))
                          ELSE None
       IN  \E signature \in SignatureHeaders(auth_token, u, post_params) :
             /\ request = [auth_token |-> auth_token, method |-> method,
                           uri |-> u,
                           headers |-> Headers(host, signature, content_type),
                           post_params |-> post_params]
             /\ inserted = ins
  /\ returned = None
  /\ verbs = <<>>
  /\ serialized = None
  /\ called = None
  /\ vocabulary = "connects"
  /\ calls = [p \in Callers |-> NoCall]
  /\ client = TwilioClient_new(<<>>, <<>>)

\* validate_twilio_signature(auth_token, method, uri, headers, post_params)
Validate ==
  /\ IsNone(returned)
  /\ returned' = Some(validate_twilio_signature(request.auth_token,
                        request.method, request.uri, request.headers,
                        request.post_params))
  /\ UNCHANGED <<request, inserted, verbs, serialized, called, vocabulary,
                 calls, client>>

ValidationNext == Validate

SpecValidation == ValidationInit /\ [][ValidationNext]_vars

\* VoiceResponse::new()
TwiMLInit ==
  /\ verbs = <<>>
  /\ serialized = None
  /\ request = IdleRequest
  /\ inserted = None
  /\ returned = None
  /\ called = None
  /\ vocabulary \in Vocabularies
  /\ calls = [p \in Callers |-> NoCall]
  /\ client = TwilioClient_new(<<>>, <<>>)

\* The builder methods take the response by value and return it with one
\* verb pushed; what serializing the former value returned is no result of
\* the new value.

\* VoiceResponse::add_verb
AddVerb ==
  \E verb \in VerbsOf(vocabulary) :
    /\ Len(verbs) < MaxVerbs
    /\ verbs' = Append(verbs, verb)
    /\ serialized' = None
    /\ called' = Some(verb)
    /\ UNCHANGED <<request, inserted, returned, vocabulary, calls, client>>

\* VoiceResponse::connect
ConnectNoun ==
  \E noun \in NounsOf(vocabulary) :
    /\ Len(verbs) < MaxVerbs
    /\ verbs' = Append(verbs, Connect(noun))
    /\ serialized' = None
    /\ called' = Some(Connect(noun))
    /\ UNCHANGED <<request, inserted, returned, vocabulary, calls, client>>

\* VoiceResponse::dial, given a Dial, or a Number or a Conference (From)
DialNoun ==
  \E dial \in DialsOf(vocabulary) :
    /\ Len(verbs) < MaxVerbs
    /\ verbs' = Append(verbs, Dial(dial))
    /\ serialized' = None
    /\ called' = Some(Dial(dial))
    /\ UNCHANGED <<request, inserted, returned, vocabulary, calls, client>>

\* VoiceResponse::reject
RejectCall_replacing ==
  /\ Len(verbs) < MaxVerbs
  /\ verbs' = IF verbs = <<>> THEN <<Reject>>
              ELSE [verbs EXCEPT ![Len(verbs)] = Reject]
  /\ serialized' = None
  /\ called' = Some(Reject)
  /\ UNCHANGED <<request, inserted, returned, vocabulary, calls, client>>

RejectCall ==
  /\ Len(verbs) < MaxVerbs
  /\ verbs' = Append(verbs, Reject)
  /\ serialized' = None
  /\ called' = Some(Reject)
  /\ UNCHANGED <<request, inserted, returned, vocabulary, calls, client>>

Serialized(op, result) == [op |-> op, result |-> result]

\* VoiceResponse::to_bytes
CallToBytes_consuming ==
  /\ serialized' = Some(Serialized("to_bytes", to_bytes(verbs)))
  /\ verbs' = <<>>
  /\ UNCHANGED <<request, inserted, returned, called, vocabulary,
                 calls, client>>

CallToBytes ==
  /\ serialized' = Some(Serialized("to_bytes", to_bytes(verbs)))
  /\ UNCHANGED <<verbs, request, inserted, returned, called, vocabulary,
                 calls, client>>

\* VoiceResponse::to_string
CallToString ==
  /\ serialized' = Some(Serialized("to_string", to_string(verbs)))
  /\ UNCHANGED <<verbs, request, inserted, returned, called, vocabulary,
                 calls, client>>

\* VoiceResponse::to_http_response
CallToHttpResponse ==
  /\ serialized' = Some(Serialized("to_http_response", to_http_response(verbs)))
  /\ UNCHANGED <<verbs, request, inserted, returned, called, vocabulary,
                 calls, client>>

TwiMLNext ==
  \/ AddVerb
  \/ ConnectNoun
  \/ DialNoun
  \/ RejectCall
  \/ CallToBytes
  \/ CallToString
  \/ CallToHttpResponse

SpecTwiML == TwiMLInit /\ [][TwiMLNext]_vars

\* ------------------------------------------- calls, statement by statement

\* The verbs of the responses that are serialized while other calls run: one
\* that is written, one that is refused, and one with nothing to validate.
CallVerbs ==
  { Connect(Stream_new(wss_url)), Connect(Conference_new(room)), Reject }

CallResponses == UNION { [1..n -> CallVerbs] : n \in 0..MaxVerbs }

\* The requests that are verified while other calls run: a GET and a form
\* POST that carry the sender's signature, the GET without its Host header
\* and without its signature header, and the POST with the signature of the
\* GET.
CallRequests ==
  LET u == Uri(None, None, <<"/", "w">>)
      token == <<"t", "o", "k">>
      params == Some(BTreeMap_from(<< Pair(<<"a">>, <<"b", "c">>) >>))
      s_get == Some(generate_valid_signature(token, signed_url(u), None))
      s_post == Some(generate_valid_signature(token, signed_url(u), params))
      RequestOf(method, host, content_type, post_params, signature) ==
        [auth_token |-> token, method |-> method, uri |-> u,
         headers |-> Headers(host, signature, content_type),
         post_params |-> post_params]
  IN  { RequestOf("GET", Some(host_name), None, None, s_get),
        RequestOf("GET", None, None, None, s_get),
        RequestOf("GET", Some(host_name), None, None, None),
        RequestOf("POST", Some(host_name), Some(s_form_urlencoded), params,
                  s_post),
        RequestOf("POST", Some(host_name), Some(s_form_urlencoded), params,
                  s_get) }

\* No call is under way.
CallsInit ==
  /\ calls = [p \in Callers |-> NoCall]
  /\ client = TwilioClient_new(<<>>, <<>>)
  /\ verbs = <<>>
  /\ serialized = None
  /\ request = IdleRequest
  /\ inserted = None
  /\ returned = None
  /\ called = None
  /\ vocabulary = "connects"

\* What a step of a call leaves alone: all but the caller's own call.
OnlyCall(p, call) ==
  /\ calls' = [calls EXCEPT ![p] = call]
  /\ UNCHANGED <<request, inserted, returned, verbs, serialized, called,
                 vocabulary, client>>

\* A caller calls to_bytes on a response of its own.
StartToBytes(p) ==
  /\ calls[p].op = "none"
  /\ \E vs \in CallResponses :
       OnlyCall(p, [NoCall EXCEPT !.op = "to_bytes", !.pc = "new", !.verbs = vs])

\* let mut writer = EventWriter::new(Vec::new());
\* writer.write(XmlEvent::start_element("Response"))?;
ToBytesNew(p) ==
  /\ calls[p].op = "to_bytes"
  /\ calls[p].pc = "new"
  /\ OnlyCall(p, [calls[p] EXCEPT
                    !.writer = write(EventWriter_new,
                                     StartElement("Response", <<>>)),
                    !.i = 1, !.pc = "match"])

\* for verb in &self.verbs { let _ = match &verb { ... };  the `?` returns
\* the error, and the writer is dropped.
ToBytesMatch(p) ==
  /\ calls[p].op = "to_bytes"
  /\ calls[p].pc = "match"
  /\ calls[p].i <= Len(calls[p].verbs)
  /\ LET checked == match_verb(calls[p].verbs[calls[p].i])
     IN  IF checked.is_ok
           THEN OnlyCall(p, [calls[p] EXCEPT !.pc = "write"])
           ELSE OnlyCall(p, [calls[p] EXCEPT
                               !.result = Some(Err(Unwrap(checked.error))),
                               !.writer = EventWriter_new, !.pc = "done"])

\* verb.write_xml(&mut writer)?; }
ToBytesWrite_static(p) ==
  /\ calls[p].op = "to_bytes"
  /\ calls[p].pc = "write"
  /\ calls' =
       [q \in Callers |->
          IF q = p
            THEN [calls[p] EXCEPT
                    !.writer = write_all(calls[p].writer,
                                 Verb_write_xml(calls[p].verbs[calls[p].i])),
                    !.i = calls[p].i + 1, !.pc = "match"]
          ELSE IF calls[q].op = "to_bytes" /\ calls[q].pc \in {"match", "write"}
            THEN [calls[q] EXCEPT
                    !.writer = write_all(calls[q].writer,
                                 Verb_write_xml(calls[p].verbs[calls[p].i]))]
          ELSE calls[q]]
  /\ UNCHANGED <<request, inserted, returned, verbs, serialized, called,
                 vocabulary, client>>

ToBytesWrite(p) ==
  /\ calls[p].op = "to_bytes"
  /\ calls[p].pc = "write"
  /\ OnlyCall(p, [calls[p] EXCEPT
                    !.writer = write_all(calls[p].writer,
                                 Verb_write_xml(calls[p].verbs[calls[p].i])),
                    !.i = calls[p].i + 1, !.pc = "match"])

\* writer.write(XmlEvent::end_element())?;  Ok(writer.into_inner())
ToBytesEnd(p) ==
  /\ calls[p].op = "to_bytes"
  /\ calls[p].pc = "match"
  /\ calls[p].i > Len(calls[p].verbs)
  /\ LET done == write(calls[p].writer, EndElement)
     IN  OnlyCall(p, [calls[p] EXCEPT
                        !.writer = done, !.result = Some(Ok(done)),
                        !.pc = "done"])

\* A caller calls validate_twilio_signature on a request of its own.
StartValidate(p) ==
  /\ calls[p].op = "none"
  /\ \E r \in CallRequests :
       OnlyCall(p, [NoCall EXCEPT !.op = "validate_twilio_signature",
                                  !.pc = "headers", !.request = r])

\* let host = headers.get("Host")...?;
\* let signature = headers.get("X-Twilio-Signature")...?;
ValidateHeaders(p) ==
  /\ calls[p].op = "validate_twilio_signature"
  /\ calls[p].pc = "headers"
  /\ LET h == get(calls[p].request.headers, "Host")
         s == get(calls[p].request.headers, "X-Twilio-Signature")
         return(error) ==
           OnlyCall(p, [calls[p] EXCEPT !.result = Some(error), !.pc = "done"])
     IN  IF IsNone(h) THEN return("MissingHost")
         ELSE IF IsNone(to_str(Unwrap(h))) THEN return("InvalidSignature")
         ELSE IF IsNone(s) THEN return("MissingSignature")
         ELSE IF IsNone(to_str(Unwrap(s))) THEN return("InvalidSignature")
         ELSE OnlyCall(p, [calls[p] EXCEPT
                             !.host = to_str(Unwrap(h)),
                             !.signature = to_str(Unwrap(s)), !.pc = "data"])

\* let url = format!(...); let mut data = url; if method == Method::POST { ... }
ValidateData(p) ==
  /\ calls[p].op = "validate_twilio_signature"
  /\ calls[p].pc = "data"
  /\ OnlyCall(p, [calls[p] EXCEPT
                    !.data = Some(data(Unwrap(calls[p].host),
                                       calls[p].request.method,
                                       calls[p].request.uri,
                                       calls[p].request.headers,
                                       calls[p].request.post_params)),
                    !.pc = "mac"])

\* let mut mac = ...; mac.update(data.as_bytes()); let computed_signature
\* = ...; if signature != computed_signature { return Err(..) }  Ok(())
ValidateCompare(p) ==
  /\ calls[p].op = "validate_twilio_signature"
  /\ calls[p].pc = "mac"
  /\ OnlyCall(p, [calls[p] EXCEPT
                    !.result =
                      Some(compare(Unwrap(calls[p].signature),
                             computed_signature(calls[p].request.auth_token,
                                                Unwrap(calls[p].data)))),
                    !.pc = "done"])

\* The call has returned: its arguments and local variables are gone.
Return(p) ==
  /\ calls[p].pc = "done"
  /\ OnlyCall(p, NoCall)

CallsNext ==
  \E p \in Callers :
    \/ StartToBytes(p)
    \/ ToBytesNew(p)
    \/ ToBytesMatch(p)
    \/ ToBytesWrite(p)
    \/ ToBytesEnd(p)
    \/ StartValidate(p)
    \/ ValidateHeaders(p)
    \/ ValidateData(p)
    \/ ValidateCompare(p)
    \/ Return(p)

SpecCalls == CallsInit /\ [][CallsNext]_vars

\* ----------------------------------------------------------- TwilioClient

\* enum Region
Regions == {"Australia", "Ireland", "UnitedStates"}

account_sid == <<"A", "C", "1">>

\* TwilioError::Validation(#[from] SignatureValidationError)
TwilioError_Validation(error) ==
  [kind |-> "Validation", source |-> error]

\* TwilioClient::validate_request: Ok(validate_twilio_signature(..)?)
validate_request_with_sid(cl, method, u, headers, post_params) ==
  LET direct == validate_twilio_signature(cl.account_sid, method, u, headers,
                                          post_params).result
  IN  IF direct = "Ok" THEN Ok("unit")
      ELSE Err(TwilioError_Validation(direct))

validate_request(cl, method, u, headers, post_params) ==
  LET direct == validate_twilio_signature(cl.auth_token, method, u, headers,
                                          post_params).result
  IN  IF direct = "Ok" THEN Ok("unit")
      ELSE Err(TwilioError_Validation(direct))

\* The requests a client is asked to verify: signed by a sender that holds
\* one of the tokens or the account sid as its key (auth_token is the
\* sender's key, which the client is not passed), a GET or a form POST with
\* a parameter, with a Host header that is absent, the sender's or not
\* text, and a signature header that is absent, the sender's or no signature.
ClientRequests ==
  LET u == Uri(None, None, <<"/", "w">>)
      params == Some(BTreeMap_from(<< Pair(<<"a">>, <<"b", "c">>) >>))
  IN  { [auth_token |-> key, method |-> method, uri |-> u,
         headers |-> Headers(host, signature, Some(s_form_urlencoded)),
         post_params |-> params] :
          key \in AuthTokens \cup {account_sid}, method \in Methods,
          host \in {None, Some(host_name), Some(<<"h", OpaqueByte>>)},
          signature \in
            {None, Some(<<"i", "n", "v", "a", "l", "i", "d">>)}
              \cup { Some(generate_valid_signature(k, signed_url(u), pp)) :
                       k \in AuthTokens \cup {account_sid},
                       pp \in {None, params} } }

\* TwilioClient::new(account_sid, auth_token), and a request to verify.
ClientInit ==
  /\ \E token \in AuthTokens : client = TwilioClient_new(account_sid, token)
  /\ request \in ClientRequests
  /\ returned = None
  /\ inserted = None
  /\ verbs = <<>>
  /\ serialized = None
  /\ called = None
  /\ vocabulary = "connects"
  /\ calls = [p \in Callers |-> NoCall]

\* TwilioClient::set_region
SetRegion ==
  /\ \E region \in Regions : client' = [client EXCEPT !.region = region]
  /\ UNCHANGED <<request, inserted, returned, verbs, serialized, called,
                 vocabulary, calls>>

\* TwilioClient::validate_request
ValidateRequest ==
  /\ returned' = Some(validate_request(client, request.method, request.uri,
                                       request.headers, request.post_params))
  /\ UNCHANGED <<request, inserted, verbs, serialized, called, vocabulary,
                 calls, client>>

\* The next request arrives.
NextRequest ==
  /\ IsSome(returned)
  /\ request' \in ClientRequests
  /\ returned' = None
  /\ UNCHANGED <<inserted, verbs, serialized, called, vocabulary, calls,
                 client>>

ClientNext ==
  \/ SetRegion
  \/ ValidateRequest
  \/ NextRequest

SpecClient == ClientInit /\ [][ClientNext]_vars

\* ------------------------------------------ properties of validation

Called == IsSome(returned)
Result == Unwrap(returned).result

HostHeader == request.headers.host
SignatureHeader == request.headers.x_twilio_signature
ContentTypeHeader == request.headers.content_type

HostReadable == IsSome(HostHeader) /\ IsSome(to_str(Unwrap(HostHeader)))
SignatureReadable ==
  IsSome(SignatureHeader) /\ IsSome(to_str(Unwrap(SignatureHeader)))

\* The request is a form-encoded POST: the method is POST and the text of
\* the Content-Type header (a value that is not visible ASCII has no text)
\* starts with application/x-www-form-urlencoded.
FormPost ==
  /\ request.method = "POST"
  /\ IsSome(ContentTypeHeader)
  /\ IsSome(to_str(Unwrap(ContentTypeHeader)))
  /\ starts_with(Unwrap(ContentTypeHeader), s_form_urlencoded)

\* The pairs of the form-parameter mapping, as a set.
Mapping ==
  IF IsSome(inserted)
    THEN { Unwrap(inserted)[i] : i \in 1..Len(Unwrap(inserted)) }
    ELSE {}

\* key1 value1 key2 value2 ... over a set of pairs, least key first.
RECURSIVE SortedConcat(_)
SortedConcat(pairs) ==
  IF pairs = {} THEN <<>>
  ELSE LET least == CHOOSE p \in pairs :
                      \A q \in pairs \ {p} : StrLess(p.key, q.key)
       IN  least.key \o least.value \o SortedConcat(pairs \ {least})

\* "https://" + Host + path-and-query.
UrlPart ==
  s_https \o Unwrap(HostHeader)
    \o (IF IsSome(path_and_query(request.uri))
          THEN Unwrap(path_and_query(request.uri)) ELSE <<>>)

\* The canonical string of the request as the specification states it.
CanonicalString ==
  UrlPart \o (IF FormPost THEN SortedConcat(Mapping) ELSE <<>>)

\* Base64(HMAC-SHA1(key = auth token, canonical string)).
ExpectedSignature ==
  Base64Encode(HmacSha1(request.auth_token, CanonicalString))

\* C1: a request whose X-Twilio-Signature header holds the Base64 HMAC-SHA1,
\* keyed by the auth token, of the canonical string built from the very same
\* inputs is accepted: validate_twilio_signature returns Ok(()).
C1_RoundTrip ==
  (/\ Called
   /\ HostReadable
   /\ IsSome(SignatureHeader)
   /\ Unwrap(SignatureHeader) = ExpectedSignature)
    => Result = "Ok"

\* C1 happens: a form POST whose two parameters were inserted out of key
\* order, signed over URL and parameters, is accepted.
C1_Witness ==
  /\ Called
  /\ HostReadable
  /\ IsSome(SignatureHeader)
  /\ FormPost
  /\ Cardinality(Mapping) = 2
  /\ Unwrap(inserted) # Unwrap(request.post_params)
  /\ Unwrap(SignatureHeader) = ExpectedSignature
  /\ Result = "Ok"

\* C2: with Host and X-Twilio-Signature both present, every header value
\* other than the signature computed over the request is answered
\* Err(InvalidSignature), and Ok is returned for the computed signature only.
C2_OnlyExactSignature ==
  Called =>
    /\ (/\ IsSome(HostHeader)
        /\ IsSome(SignatureHeader)
        /\ ~(HostReadable /\ Unwrap(SignatureHeader) = ExpectedSignature))
         => Result = "InvalidSignature"
    /\ Result = "Ok" =>
         /\ HostReadable
         /\ IsSome(SignatureHeader)
         /\ Unwrap(SignatureHeader) = ExpectedSignature

\* C2 happens: the valid signature of a POST with one character changed is
\* refused.
C2_Witness ==
  /\ Called
  /\ HostReadable
  /\ FormPost
  /\ Mapping # {}
  /\ IsSome(SignatureHeader)
  /\ \E i \in 1..Len(ExpectedSignature) :
       Unwrap(SignatureHeader) = Flip(ExpectedSignature, i)
  /\ Result = "InvalidSignature"

\* C3: without a Host header the call returns Err(MissingHost), whatever the
\* method, the URI, the token, the parameters and the other headers are.
C3_MissingHost ==
  (Called /\ IsNone(HostHeader)) => Result = "MissingHost"

\* C3 happens: no Host header, and a signature header that is the sender's
\* valid signature.
C3_Witness ==
  /\ Called
  /\ IsNone(HostHeader)
  /\ IsSome(SignatureHeader)
  /\ Unwrap(SignatureHeader)
       = generate_valid_signature(request.auth_token, signed_url(request.uri),
                                  None)
  /\ Result = "MissingHost"

\* C4 as stated: with a Host header present and no X-Twilio-Signature header
\* the call returns Err(MissingSignature), and has computed no signature.
C4_AsStated ==
  (Called /\ IsSome(HostHeader) /\ IsNone(SignatureHeader)) =>
    /\ Result = "MissingSignature"
    /\ IsNone(Unwrap(returned).data)
    /\ IsNone(Unwrap(returned).computed_signature)

\* C4, amended: with a Host header whose value is visible ASCII text and no
\* X-Twilio-Signature header the call returns Err(MissingSignature), and has
\* built no canonical string and computed no signature before it returns.
C4_MissingSignature ==
  (Called /\ HostReadable /\ IsNone(SignatureHeader)) =>
    /\ Result = "MissingSignature"
    /\ IsNone(Unwrap(returned).data)
    /\ IsNone(Unwrap(returned).computed_signature)

\* C4 happens: a form POST with parameters, a readable Host and no signature
\* header.
C4_Witness ==
  /\ Called
  /\ HostReadable
  /\ IsNone(SignatureHeader)
  /\ FormPost
  /\ Mapping # {}
  /\ Result = "MissingSignature"

\* Every parameter argument a caller may pass: None, or a map.
ParamArguments ==
  {None} \cup { Some(BTreeMap_from(s)) : s \in Insertions }

\* C5: unless the request is a form-encoded POST, the parameter mapping does
\* not enter the result: the call returns the same for every mapping and for
\* None, and the canonical string it signs is the URL part alone.
C5_ParamsOnlyForFormPost ==
  (Called /\ ~FormPost) =>
    /\ \A params \in ParamArguments :
         validate_twilio_signature(request.auth_token, request.method,
                                   request.uri, request.headers, params)
           = Unwrap(returned)
    /\ IsSome(Unwrap(returned).data) => Unwrap(Unwrap(returned).data) = UrlPart

\* C5 happens: a POST that is not form-encoded, passed a non-empty mapping,
\* is accepted on the signature of the URL alone.
C5_Witness ==
  /\ Called
  /\ request.method = "POST"
  /\ ~FormPost
  /\ Mapping # {}
  /\ Result = "Ok"
  /\ Unwrap(Unwrap(returned).data) = UrlPart

\* The orders in which the pairs of the mapping can be inserted.
InsertionOrders ==
  { s \in [1..Cardinality(Mapping) -> Mapping] :
      { s[i] : i \in 1..Len(s) } = Mapping }

\* C6: for a form-encoded POST the canonical string is the URL part followed
\* by key value key value ... over the pairs of the mapping in ascending byte
\* order of the keys, nothing in between; the order of insertion does not
\* change what the call returns.
C6_SortedConcatenation ==
  (Called /\ FormPost /\ IsSome(Unwrap(returned).data)) =>
    /\ Unwrap(Unwrap(returned).data) = UrlPart \o SortedConcat(Mapping)
    /\ IsSome(inserted) =>
         \A s \in InsertionOrders :
           validate_twilio_signature(request.auth_token, request.method,
                                     request.uri, request.headers,
                                     Some(BTreeMap_from(s)))
             = Unwrap(returned)

\* C6 happens: "a" was inserted before "Z", and the canonical string has
\* "Z" "1" before "a" "bc".
C6_Witness ==
  /\ Called
  /\ FormPost
  /\ IsSome(inserted)
  /\ Unwrap(inserted) = << Pair(<<"a">>, <<"b", "c">>), Pair(<<"Z">>, <<"1">>) >>
  /\ IsSome(Unwrap(returned).data)
  /\ Unwrap(Unwrap(returned).data)
       = UrlPart \o <<"Z", "1", "a", "b", "c">>

\* --------------------------------------- properties of serialization

HasSerialized == IsSome(serialized)
Outcome == Unwrap(serialized).result
Failure == Unwrap(Outcome.error)

\* Verb i of the response is a Connect whose noun is no Stream.
ConnectWithoutStream(i) ==
  /\ verbs[i].verb = "Connect"
  /\ verbs[i].noun.type # "Stream"

\* Verb i of the response is a Dial whose noun is a Stream.
DialWithStream(i) ==
  /\ verbs[i].verb = "Dial"
  /\ verbs[i].dial.noun.type = "Stream"

\* Every verb before verb i passes the validation of to_bytes.
EarlierVerbsPass(i) == \A j \in 1..(i - 1) : match_verb(verbs[j]).is_ok

\* C7: serializing a response that contains a Connect whose noun is a
\* Conference or a Number fails, whatever the fields of the noun are, and
\* the error is UnsupportedNoun; serialization returns the error of the
\* first failing verb in document order, so this is the error returned when
\* no verb before that Connect fails.
C7_ConnectNeedsStream ==
  HasSerialized =>
    \A i \in 1..Len(verbs) :
      ConnectWithoutStream(i) =>
        /\ ~Outcome.is_ok
        /\ EarlierVerbsPass(i) => Failure = UnsupportedNoun

\* C7 happens: a Reject, then a Connect of a Conference (one whose own fields
\* are invalid at that), serialized to UnsupportedNoun.
C7_Witness ==
  /\ HasSerialized
  /\ verbs = << Reject,
                Connect([Conference_new(room) EXCEPT
                           !.recording_status_callback_event = Some(s_bogus)]) >>
  /\ ~Outcome.is_ok
  /\ Failure = UnsupportedNoun

\* C8: serializing a response that contains a Dial whose noun is a Stream
\* always fails, for every value of the Dial's attributes and of the
\* Stream's fields, and the error is UnsupportedNoun; serialization returns
\* the error of the first failing verb in document order, so this is the
\* error returned when no verb before that Dial fails.
C8_DialRefusesStream ==
  HasSerialized =>
    \A i \in 1..Len(verbs) :
      DialWithStream(i) =>
        /\ ~Outcome.is_ok
        /\ EarlierVerbsPass(i) => Failure = UnsupportedNoun

\* C8 happens: a Dial with an attribute set, of a Stream whose url is itself
\* invalid, serialized to UnsupportedNoun.
C8_Witness ==
  /\ HasSerialized
  /\ verbs = << Dial([Dial_new(Stream_new(https_url)) EXCEPT
                        !.recording_status_callback_event = Some(s_completed)]) >>
  /\ ~Outcome.is_ok
  /\ Failure = UnsupportedNoun

\* The url with its scheme replaced by wss.
with_scheme_wss(u) == <<"w", "s", "s">> \o SubSeq(u, IndexOf(u, ":"), Len(u))

\* The url is written scheme://..., under a scheme other than wss.
OtherSchemeUrl(u) ==
  /\ IsSome(url_scheme(u))
  /\ Unwrap(url_scheme(u)) # <<"w", "s", "s">>
  /\ starts_with(SubSeq(u, IndexOf(u, ":"), Len(u)), <<":", "/", "/">>)

\* Nothing of the response but the url of the Stream of verb i is invalid.
OnlyUrlInQuestion(i) ==
  /\ \A j \in 1..Len(verbs) : j # i => match_verb(verbs[j]).is_ok
  /\ IsSome(verbs[i].noun.status_callback) =>
       validate_url(Unwrap(verbs[i].noun.status_callback))

\* C9: a response with a Connect of a Stream whose url has a scheme other
\* than wss fails serialization with the invalid_websocket_url validation
\* error on the field url (it is the first error when no verb before it is
\* invalid); the same response with only that scheme changed to wss
\* serializes (the response being valid otherwise); and whenever a response
\* serializes, the url of each of its Connect Streams parses as a URL whose
\* scheme is wss.
C9_StreamUrlIsWss ==
  HasSerialized =>
    \A i \in 1..Len(verbs) :
      (verbs[i].verb = "Connect" /\ verbs[i].noun.type = "Stream") =>
        LET u == verbs[i].noun.url
        IN  /\ (OtherSchemeUrl(u) /\ EarlierVerbsPass(i)) =>
                 /\ ~Outcome.is_ok
                 /\ Failure.kind = "Validation"
                 /\ \E e \in Failure.errors :
                      e.field = "url" /\ e.code = "invalid_websocket_url"
            /\ (OtherSchemeUrl(u) /\ validate_url(u) /\ OnlyUrlInQuestion(i)) =>
                 to_bytes([verbs EXCEPT ![i].noun.url = with_scheme_wss(u)]).is_ok
            /\ Outcome.is_ok =>
                 /\ validate_url(u)
                 /\ url_scheme(u) = Some(<<"w", "s", "s">>)

\* C9 happens: Connect(Stream) of https://h/c, after a Reject, fails on the
\* field url with invalid_websocket_url, and the response with wss://h/c in
\* its place serializes.
C9_Witness ==
  /\ HasSerialized
  /\ verbs = << Reject, Connect(Stream_new(https_url)) >>
  /\ ~Outcome.is_ok
  /\ Failure.kind = "Validation"
  /\ \E e \in Failure.errors :
       e.field = "url" /\ e.code = "invalid_websocket_url"
  /\ to_bytes(<< Reject, Connect(Stream_new(wss_url)) >>).is_ok

\* C10: serializing a Dial, of a Conference or a Number, whose
\* recording_status_callback_event is present and is none of in-progress,
\* completed, absent fails with a validation error.
C10_DialRecordingEvent ==
  HasSerialized =>
    \A i \in 1..Len(verbs) :
      (/\ verbs[i].verb = "Dial"
       /\ verbs[i].dial.noun.type \in {"Conference", "Number"}
       /\ IsSome(verbs[i].dial.recording_status_callback_event)
       /\ Unwrap(verbs[i].dial.recording_status_callback_event)
            \notin {s_in_progress, s_completed, s_absent})
        => /\ ~Outcome.is_ok
           /\ EarlierVerbsPass(i) =>
                /\ Failure.kind = "Validation"
                /\ \E e \in Failure.errors :
                     e.field = "recording_status_callback_event"

\* ------------------------------------------ properties of Conference fields

\* Verb i of the response is a Dial of a Conference.
DialOfConference(i) ==
  /\ verbs[i].verb = "Dial"
  /\ verbs[i].dial.noun.type = "Conference"

\* The serialization failed with a validation error that has an error under
\* the field.
FailedOnField(field) ==
  /\ ~Outcome.is_ok
  /\ Failure.kind = "Validation"
  /\ \E e \in Failure.errors : e.field = field

\* Verb i is the first verb of the response that to_bytes refuses.
FirstRefused(i) == EarlierVerbsPass(i) /\ ~match_verb(verbs[i]).is_ok

RecordingEventAccepted(event) ==
  IsSome(event) => Unwrap(event) \in {s_in_progress, s_completed, s_absent}

\* C11: serializing a Dial of a Conference whose
\* recording_status_callback_event is present and is none of in-progress,
\* completed, absent fails, with a validation error that names that field
\* (the error returned is that of the first refused verb in document order);
\* with one of the three values, or with the field absent, the validation
\* error of that Conference, if any, has no error under that field.
C11_ConferenceRecordingEvent ==
  HasSerialized =>
    \A i \in 1..Len(verbs) :
      DialOfConference(i) =>
        LET event == verbs[i].dial.noun.recording_status_callback_event
        IN  /\ ~RecordingEventAccepted(event) => ~Outcome.is_ok
            /\ (~RecordingEventAccepted(event) /\ EarlierVerbsPass(i)) =>
                 /\ FailedOnField("recording_status_callback_event")
                 /\ \E e \in Failure.errors :
                      /\ e.field = "recording_status_callback_event"
                      /\ e.message.about = Unwrap(event)
            /\ (RecordingEventAccepted(event) /\ FirstRefused(i)) =>
                 ~FailedOnField("recording_status_callback_event")
            /\ (RecordingEventAccepted(event) /\ Len(verbs) = 1
                  /\ verbs[i].dial.noun =
                       [Conference_new(verbs[i].dial.noun.name) EXCEPT
                          !.recording_status_callback_event = event]) =>
                 Outcome.is_ok

\* C11 happens: a Dial of a Conference with the event "Completed", after a
\* Reject, fails on recording_status_callback_event.
C11_Witness ==
  /\ HasSerialized
  /\ verbs = << Reject,
                Dial(Dial_new([Conference_new(room) EXCEPT
                  !.recording_status_callback_event =
                     Some(<<"C", "o", "m", "p", "l", "e", "t", "e", "d">>)])) >>
  /\ FailedOnField("recording_status_callback_event")

\* The tokens of a text: where each maximal run of characters that are not
\* whitespace begins and ends.
Tokens(s) ==
  { t \in (1..Len(s)) \X (1..Len(s)) :
      /\ t[1] <= t[2]
      /\ \A k \in t[1]..t[2] : s[k] \notin WhiteSpace
      /\ t[1] = 1 \/ s[t[1] - 1] \in WhiteSpace
      /\ t[2] = Len(s) \/ s[t[2] + 1] \in WhiteSpace }

\* The events the documentation of status_callback_event lists.
ListedEvents ==
  { <<"s", "t", "a", "r", "t">>, <<"e", "n", "d">>, <<"j", "o", "i", "n">>,
    <<"l", "e", "a", "v", "e">>, <<"m", "u", "t", "e">>, <<"h", "o", "l", "d">>,
    <<"m", "o", "d", "i", "f", "y">>, <<"s", "p", "e", "a", "k", "e", "r">>,
    <<"a", "n", "n", "o", "u", "n", "c", "e", "m", "e", "n", "t">> }

\* The tokens of a text that are no listed event.
Offending(s) == { t \in Tokens(s) : SubSeq(s, t[1], t[2]) \notin ListedEvents }

\* The first of them from the left.
FirstOffending(s) ==
  LET t == CHOOSE t \in Offending(s) : \A o \in Offending(s) : t[1] <= o[1]
  IN  SubSeq(s, t[1], t[2])

\* C12: serializing a Dial of a Conference whose status_callback_event is
\* present passes on that field if and only if every whitespace-separated
\* token of the value is one of start, end, join, leave, mute, hold, modify,
\* speaker, announcement; otherwise it fails with a validation error under
\* status_callback_event whose message names the first offending token from
\* the left (the error returned is that of the first refused verb in
\* document order).
C12_StatusCallbackEventTokens ==
  HasSerialized =>
    \A i \in 1..Len(verbs) :
      (DialOfConference(i) /\ IsSome(verbs[i].dial.noun.status_callback_event)) =>
        LET event == Unwrap(verbs[i].dial.noun.status_callback_event)
        IN  /\ Offending(event) # {} => ~Outcome.is_ok
            /\ (Offending(event) # {} /\ EarlierVerbsPass(i)) =>
                 /\ FailedOnField("status_callback_event")
                 /\ \A e \in Failure.errors :
                      e.field = "status_callback_event" =>
                        /\ e.message.text = "Invalid status callback event: "
                        /\ e.message.about = FirstOffending(event)
            /\ (Offending(event) = {} /\ FirstRefused(i)) =>
                 ~FailedOnField("status_callback_event")
            /\ (Offending(event) = {} /\ Len(verbs) = 1
                  /\ verbs[i].dial.noun =
                       [Conference_new(verbs[i].dial.noun.name) EXCEPT
                          !.status_callback_event = Some(event)]) =>
                 Outcome.is_ok

\* C12 happens: the value "end bogus nope end" fails on status_callback_event
\* with a message that names bogus.
C12_Witness ==
  /\ HasSerialized
  /\ Len(verbs) = 1
  /\ DialOfConference(1)
  /\ IsSome(verbs[1].dial.noun.status_callback_event)
  /\ Cardinality(Offending(Unwrap(verbs[1].dial.noun.status_callback_event))) = 2
  /\ FailedOnField("status_callback_event")
  /\ \E e \in Failure.errors : e.message.about = s_bogus

\* C13: a Dial of a Conference with a participant_label of at most 128
\* characters, 128 included, passes validation on that field, and one of 129
\* or more characters fails serialization, with a validation error under
\* participant_label (the error returned is that of the first refused verb
\* in document order).
C13_ParticipantLabelBoundary ==
  HasSerialized =>
    \A i \in 1..Len(verbs) :
      (DialOfConference(i) /\ IsSome(verbs[i].dial.noun.participant_label)) =>
        LET label == Unwrap(verbs[i].dial.noun.participant_label)
        IN  /\ Len(label) >= 129 => ~Outcome.is_ok
            /\ (Len(label) >= 129 /\ EarlierVerbsPass(i)) =>
                 FailedOnField("participant_label")
            /\ (Len(label) <= 128 /\ FirstRefused(i)) =>
                 ~FailedOnField("participant_label")
            /\ (Len(label) <= 128 /\ Len(verbs) = 1
                  /\ verbs[i].dial.noun =
                       [Conference_new(verbs[i].dial.noun.name) EXCEPT
                          !.participant_label = Some(label)]) =>
                 Outcome.is_ok

\* C13 happens: a label of exactly 128 characters serializes, and is written
\* as the attribute participantLabel.
C13_Witness ==
  /\ HasSerialized
  /\ Len(verbs) = 1
  /\ DialOfConference(1)
  /\ verbs[1].dial.noun.participant_label = Some(TextOfLength(128))
  /\ Outcome.is_ok
  /\ \E k \in 1..Len(Unwrap(Outcome.value)) :
       Unwrap(Outcome.value)[k].attributes =
         << <<"participantLabel", TextOfLength(128)>> >>

\* C14: a Dial of a Conference with max_participants absent, or from 0 to
\* 250, passes validation on that field, and any value of 251 or more fails
\* serialization, with a validation error under max_participants (the error
\* returned is that of the first refused verb in document order).
C14_MaxParticipantsBoundary ==
  HasSerialized =>
    \A i \in 1..Len(verbs) :
      DialOfConference(i) =>
        LET max == verbs[i].dial.noun.max_participants
            over == IsSome(max) /\ Unwrap(max) >= 251
        IN  /\ over => ~Outcome.is_ok
            /\ (over /\ EarlierVerbsPass(i)) => FailedOnField("max_participants")
            /\ (~over /\ FirstRefused(i)) => ~FailedOnField("max_participants")
            /\ (~over /\ Len(verbs) = 1
                  /\ verbs[i].dial.noun =
                       [Conference_new(verbs[i].dial.noun.name) EXCEPT
                          !.max_participants = max]) =>
                 Outcome.is_ok

\* C14 happens: max_participants of 250 serializes (and is written as
\* maxParticipants="250"), and the response that sets 251 in the next Dial
\* fails on max_participants.
C14_Witness ==
  /\ HasSerialized
  /\ Len(verbs) = 1
  /\ DialOfConference(1)
  /\ verbs[1].dial.noun.max_participants = Some(250)
  /\ Outcome.is_ok
  /\ \E k \in 1..Len(Unwrap(Outcome.value)) :
       Unwrap(Outcome.value)[k].attributes =
         << <<"maxParticipants", <<"2", "5", "0">>>> >>
  /\ ~to_bytes(<< verbs[1], Dial(Dial_new([Conference_new(room) EXCEPT
                                 !.max_participants = Some(251)])) >>).is_ok

\* ------------------------------------------- properties of Stream fields

\* Verb i of the response is a Connect of a Stream.
ConnectOfStream(i) ==
  /\ verbs[i].verb = "Connect"
  /\ verbs[i].noun.type = "Stream"

\* The status_callback is present and does not parse as a URL.
CallbackIsNoUrl(stream) ==
  /\ IsSome(stream.status_callback)
  /\ ~validate_url(Unwrap(stream.status_callback))

\* What C15 says of the Streams that pass: with a status_callback that is
\* absent or parses as a URL, under whatever scheme, the validation error of
\* that Stream, if any, has no error under status_callback, and a Stream with
\* a wss url and nothing else set serializes.
CallbackPasses(i) ==
  LET stream == verbs[i].noun
  IN  /\ (~CallbackIsNoUrl(stream) /\ FirstRefused(i)) =>
           ~FailedOnField("status_callback")
      /\ (~CallbackIsNoUrl(stream) /\ Len(verbs) = 1
            /\ stream = [Stream_new(wss_url) EXCEPT
                           !.status_callback = stream.status_callback]) =>
           Outcome.is_ok

\* C15 as stated: a Connect of a Stream whose status_callback is present and
\* does not parse as a URL fails serialization with the InvalidCallbackUrl
\* error (when no verb before it is refused); a well-formed status_callback
\* and an absent one pass.
C15_AsStated ==
  HasSerialized =>
    \A i \in 1..Len(verbs) :
      ConnectOfStream(i) =>
        /\ (CallbackIsNoUrl(verbs[i].noun) /\ EarlierVerbsPass(i)) =>
             /\ ~Outcome.is_ok
             /\ Failure.kind = InvalidCallbackUrl.kind
        /\ CallbackPasses(i)

\* C15, amended: a Connect of a Stream whose status_callback is present and
\* does not parse as a URL fails serialization with a validation error that
\* has an error of code url under the field status_callback (the error
\* returned is that of the first refused verb in document order); never with
\* the InvalidCallbackUrl error; a well-formed status_callback, of any
\* scheme, and an absent one pass.
C15_StatusCallbackIsUrl ==
  HasSerialized =>
    \A i \in 1..Len(verbs) :
      ConnectOfStream(i) =>
        /\ CallbackIsNoUrl(verbs[i].noun) => ~Outcome.is_ok
        /\ (CallbackIsNoUrl(verbs[i].noun) /\ EarlierVerbsPass(i)) =>
             /\ FailedOnField("status_callback")
             /\ \A e \in Failure.errors :
                  e.field = "status_callback" => e.code = "url"
        /\ ~Outcome.is_ok => Failure.kind # InvalidCallbackUrl.kind
        /\ CallbackPasses(i)

\* C15 happens: the Stream of a wss url with the status_callback "cb" fails
\* under status_callback, and the one with the status_callback ftp://h/cb
\* serializes.
C15_Witness ==
  /\ HasSerialized
  /\ verbs = << Connect([Stream_new(wss_url) EXCEPT
                           !.status_callback = Some(callback_path)]) >>
  /\ FailedOnField("status_callback")
  /\ to_bytes(<< Connect([Stream_new(wss_url) EXCEPT
                            !.status_callback = Some(ftp_url)]) >>).is_ok

\* ------------------------------------------ properties of what is written

\* The document a successful serialization returned: the bytes of to_bytes,
\* the text of to_string, the body of the response of to_http_response.
Document ==
  IF Unwrap(serialized).op = "to_http_response"
    THEN Unwrap(Outcome.value).body
    ELSE Unwrap(Outcome.value)

\* How many elements are open after event k of a document.
Depth(doc, k) ==
  Cardinality({ j \in 1..k : doc[j].event = "start_element" })
    - Cardinality({ j \in 1..k : doc[j].event = "end_element" })

\* The events that open the children of the root, from first to last.
ChildrenOf(doc) ==
  { k \in 3..Len(doc) : doc[k].event = "start_element" /\ Depth(doc, k) = 2 }

\* The k-th least member of a set of numbers, as a sequence in order.
RECURSIVE InOrder(_)
InOrder(set) ==
  IF set = {} THEN <<>>
  ELSE LET least == CHOOSE k \in set : \A j \in set : k <= j
       IN  <<least>> \o InOrder(set \ {least})

\* Where the element that event k of a document opens is closed.
CloseOf(doc, k) ==
  CHOOSE c \in k..Len(doc) :
    /\ Depth(doc, c) = Depth(doc, k) - 1
    /\ \A j \in k..(c - 1) : Depth(doc, j) >= Depth(doc, k)

\* A whole document of n verbs: the declaration, the root Response opened
\* first and closed last and by nothing before, and n children of the root.
Complete(doc, n) ==
  /\ Len(doc) >= 3
  /\ doc[1] = Declaration
  /\ doc[2] = StartElement("Response", <<>>)
  /\ doc[Len(doc)] = EndElement
  /\ \A k \in 2..(Len(doc) - 1) : Depth(doc, k) >= 1
  /\ Depth(doc, Len(doc)) = 0
  /\ Cardinality(ChildrenOf(doc)) = n

\* C16: to_bytes, to_string and to_http_response each return either the
\* whole document, of all the verbs, or an error that carries no bytes: when
\* a verb at any position is refused the call returns an error and nothing
\* of the document, not the root and the verbs written before it.
C16_AllOrNothing ==
  HasSerialized =>
    /\ Outcome.is_ok =>
         /\ IsNone(Outcome.error)
         /\ Complete(Document, Len(verbs))
    /\ ~Outcome.is_ok =>
         /\ IsNone(Outcome.value)
         /\ DOMAIN Failure = {"kind", "errors"}
         /\ \A e \in Failure.errors :
              DOMAIN e = {"field", "code", "message"}
    /\ (\E i \in 1..Len(verbs) : ~match_verb(verbs[i]).is_ok) =>
         ~Outcome.is_ok

\* C16 happens: a Reject, which was written after the root, then a refused
\* verb at the end: the call returns an error and no bytes.
C16_Witness ==
  /\ HasSerialized
  /\ Len(verbs) >= 2
  /\ verbs[1] = Reject
  /\ match_verb(verbs[1]).is_ok
  /\ ~match_verb(verbs[Len(verbs)]).is_ok
  /\ Len(to_bytes_loop(verbs, 1,
            write(EventWriter_new, StartElement("Response", <<>>))).writer) > 2
  /\ ~Outcome.is_ok
  /\ IsNone(Outcome.value)

\* The element that event k of a document opens holds nothing.
SelfContained(doc, k) == CloseOf(doc, k) = k + 1

\* The element that event k of a document opens holds one element, of the
\* name, and nothing else.
Wraps(doc, k, name) ==
  /\ doc[k + 1].event = "start_element"
  /\ doc[k + 1].name = name
  /\ CloseOf(doc, k) = CloseOf(doc, k + 1) + 1

\* The children of the root are the verbs, one element each, in the order
\* of the list: Connect around its Stream, Dial around its noun, Reject
\* holding nothing.
WrittenInOrder(doc, vs) ==
  LET children == InOrder(ChildrenOf(doc))
  IN  /\ Len(children) = Len(vs)
      /\ \A i \in 1..Len(vs) :
           LET k == children[i]
           IN  /\ doc[k].name = vs[i].verb
               /\ vs[i].verb = "Connect" => Wraps(doc, k, "Stream")
               /\ vs[i].verb = "Dial" => Wraps(doc, k, vs[i].dial.noun.type)
               /\ vs[i].verb = "Reject" => SelfContained(doc, k)

\* C17: verb order is preserved. Every builder call leaves the list as it
\* was with the verb of the call at its end, so that the list holds the
\* verbs in call order; and a successful serialization writes, in one
\* Response root, one element for each verb in that same order (Connect
\* around its Stream, Dial around its noun, Reject holding nothing): a
\* Reject appended before a Connect is never written after it.
C17_VerbOrderPreserved ==
  /\ [][(verbs' # verbs \/ called' # called) =>
          verbs' = Append(verbs, Unwrap(called'))]_vars
  /\ []((HasSerialized /\ Outcome.is_ok) =>
          /\ Complete(Document, Len(verbs))
          /\ WrittenInOrder(Document, verbs))

\* C17 happens: reject() then connect(Stream) serialized, the Reject element
\* first and the Connect element after it.
C17_Witness ==
  /\ HasSerialized
  /\ verbs = << Reject, Connect(Stream_new(wss_url)) >>
  /\ called = Some(Connect(Stream_new(wss_url)))
  /\ Outcome.is_ok
  /\ Document =
       << Declaration, StartElement("Response", <<>>),
          StartElement("Reject", <<>>), EndElement,
          StartElement("Connect", <<>>),
          StartElement("Stream", << <<"url", wss_url>> >>), EndElement,
          EndElement, EndElement >>

\* ------------------------------------------------ properties of building

\* A step is a call of a builder method.
BuilderStep == verbs' # verbs \/ called' # called

\* C18: a builder call never fails and never validates. It returns the
\* response with the list it had, every verb of it in its place, and the one
\* verb of the call after them, whether to_bytes refuses that verb or not;
\* no step takes a verb out of the list or puts another in its place, and
\* serializing leaves the list as it is. A response that serialization
\* refuses, such as Connect(Conference), is built like any other.
C18_BuildersOnlyAppend ==
  [][/\ BuilderStep =>
          /\ Len(verbs') = Len(verbs) + 1
          /\ \A k \in 1..Len(verbs) : verbs'[k] = verbs[k]
          /\ verbs'[Len(verbs')] = Unwrap(called')
     /\ ~BuilderStep => verbs' = verbs
     /\ Len(verbs') >= Len(verbs)
     /\ \A k \in 1..Len(verbs) : verbs'[k] = verbs[k]]_vars

\* C18 happens: Connect(Conference) was appended to a response that already
\* held a refused verb, and the response built errs when serialized.
C18_Witness ==
  /\ Len(verbs) = 2
  /\ ~match_verb(verbs[1]).is_ok
  /\ verbs[2] = Connect(Conference_new(room))
  /\ called = Some(Connect(Conference_new(room)))
  /\ HasSerialized
  /\ ~Outcome.is_ok

\* ---------------------------------------------- properties of attributes

\* The names of the attributes of the element that event k opens, as written.
NamesAt(doc, k) ==
  [ j \in 1..Len(doc[k].attributes) |-> doc[k].attributes[j][1] ]

\* Where an attribute stands in the declaration of its struct.
DeclaredAt(declared, name) ==
  CHOOSE p \in 1..Len(declared) : declared[p][2] = name

\* The names are, each once and in declared order, the attributes of the
\* fields of the value that are Some.
OnlyThePresent(names, value, declared) ==
  /\ { names[j] : j \in 1..Len(names) }
       = { declared[p][2] : p \in { r \in 1..Len(declared) :
                                      IsSome(value[declared[r][1]]) } }
  /\ \A a, b \in 1..Len(names) :
       a < b => DeclaredAt(declared, names[a]) < DeclaredAt(declared, names[b])

\* None of the attributes written has the empty text without its field
\* being Some of the empty text.
NoEmptyForAbsent(attributes, value, declared) ==
  \A j \in 1..Len(attributes) :
    attributes[j][2] = <<>> =>
      \E p \in 1..Len(declared) :
        /\ declared[p][2] = attributes[j][1]
        /\ declared[p][3] = "String"
        /\ value[declared[p][1]] = Some(<<>>)

\* The attributes of the noun written at event k, by the noun's type; the
\* url of a Stream, no Option, is always written and comes first.
NounAttributesAsDeclared(doc, k, noun) ==
  CASE noun.type = "Stream" ->
         /\ Len(doc[k].attributes) >= 1
         /\ doc[k].attributes[1] = <<"url", noun.url>>
         /\ OnlyThePresent(Tail(NamesAt(doc, k)), noun, Stream_attributes)
         /\ NoEmptyForAbsent(Tail(doc[k].attributes), noun, Stream_attributes)
    [] noun.type = "Conference" ->
         /\ OnlyThePresent(NamesAt(doc, k), noun, Conference_attributes)
         /\ NoEmptyForAbsent(doc[k].attributes, noun,
                             Conference_attributes)
    [] noun.type = "Number" ->
         /\ OnlyThePresent(NamesAt(doc, k), noun, Number_attributes)
         /\ NoEmptyForAbsent(doc[k].attributes, noun, Number_attributes)

\* C19: in the serialized document an optional attribute of a Dial, a
\* Conference, a Number or a Stream is written if and only if its field is
\* Some; an absent field is left out, never written as an empty attribute;
\* and the attributes written stand in the order the struct declares them.
C19_AttributesOnlyWhenPresent ==
  (HasSerialized /\ Outcome.is_ok) =>
    LET children == InOrder(ChildrenOf(Document))
    IN  /\ Len(children) = Len(verbs)
        /\ \A i \in 1..Len(verbs) :
             LET k == children[i]
             IN  /\ verbs[i].verb = "Dial" =>
                      /\ OnlyThePresent(NamesAt(Document, k), verbs[i].dial,
                                        Dial_attributes)
                      /\ NoEmptyForAbsent(Document[k].attributes,
                                          verbs[i].dial, Dial_attributes)
                      /\ NounAttributesAsDeclared(Document, k + 1,
                                                  verbs[i].dial.noun)
                 /\ verbs[i].verb = "Connect" =>
                      /\ Document[k].attributes = <<>>
                      /\ NounAttributesAsDeclared(Document, k + 1,
                                                  verbs[i].noun)
                 /\ verbs[i].verb = "Reject" => Document[k].attributes = <<>>

\* C19 happens: a Dial with action and method set, and nothing between them,
\* is written with those two attributes alone, action first.
C19_Witness ==
  /\ HasSerialized
  /\ Outcome.is_ok
  /\ Len(verbs) = 1
  /\ verbs[1] = Dial([Dial_new(Number_new(<<"4", "1", "5">>)) EXCEPT
                        !.action = Some(callback_path), !.method = Some(s_POST)])
  /\ Document[3] = StartElement("Dial", << <<"action", callback_path>>,
                                          <<"method", s_POST>> >>)
  /\ Document[4] = StartElement("Number", <<>>)

\* ------------------------------------------- properties of Stream parameters

\* The parameters a Stream carries: those of its list, none when it has no
\* list.
ParametersOf(stream) ==
  IF IsSome(stream.parameters) THEN Unwrap(stream.parameters) ELSE <<>>

\* Event k of a document opens a Parameter element that holds nothing and
\* has the name and the value of the parameter as its two attributes.
ParameterAt(doc, k, parameter) ==
  /\ k + 1 <= Len(doc)
  /\ doc[k] = StartElement("Parameter", << <<"name", parameter.name>>,
                                           <<"value", parameter.value>> >>)
  /\ doc[k + 1] = EndElement

\* The Stream that event k of a document opens holds one Parameter element
\* per entry of the list, entry p at the p-th place, and nothing after the
\* last but its own end.
NestsParameters(doc, k, parameters) ==
  /\ doc[k].event = "start_element"
  /\ doc[k].name = "Stream"
  /\ \A p \in 1..Len(parameters) :
       ParameterAt(doc, k + 2 * p - 1, parameters[p])
  /\ CloseOf(doc, k) = k + 2 * Len(parameters) + 1

\* C20: in the serialized document a Stream with parameters is written with
\* one nested Parameter element per entry of the list, in list order, between
\* the start and the end of the Stream; a Stream with none is written as one
\* element that holds nothing, its start followed at once by its end.
C20_StreamParametersNested ==
  (HasSerialized /\ Outcome.is_ok) =>
    LET children == InOrder(ChildrenOf(Document))
    IN  /\ Len(children) = Len(verbs)
        /\ \A i \in 1..Len(verbs) :
             ConnectOfStream(i) =>
               /\ NestsParameters(Document, children[i] + 1,
                                  ParametersOf(verbs[i].noun))
               /\ ParametersOf(verbs[i].noun) = <<>> =>
                    SelfContained(Document, children[i] + 1)

\* C20 happens: a Stream with two parameters is written with the two
\* Parameter elements inside it, the first of the list first.
C20_Witness ==
  /\ HasSerialized
  /\ Outcome.is_ok
  /\ Len(verbs) = 1
  /\ ConnectOfStream(1)
  /\ verbs[1].noun.parameters = Some(<<first_parameter, last_parameter>>)
  /\ Document[4].name = "Stream"
  /\ SubSeq(Document, 5, 9)
       = Parameter_write_xml(first_parameter)
           \o Parameter_write_xml(last_parameter)
           \o << EndElement >>

\* ------------------------------------- properties of the HTTP envelope

\* The last serialization was a call of the operation.
SerializedBy(op) == HasSerialized /\ Unwrap(serialized).op = op

\* C21: to_http_response agrees with to_bytes on every response: it returns
\* Ok exactly when to_bytes returns Ok, the body is then what to_bytes
\* returns and the Content-Type header is application/xml; when to_bytes
\* fails it returns the same error and no response.
C21_HttpResponseAgrees ==
  SerializedBy("to_http_response") =>
    /\ Outcome.is_ok <=> to_bytes(verbs).is_ok
    /\ Outcome.is_ok =>
         /\ Unwrap(Outcome.value).body = Unwrap(to_bytes(verbs).value)
         /\ Unwrap(Outcome.value).headers.content_type = "application/xml"
    /\ ~Outcome.is_ok =>
         /\ Outcome.error = to_bytes(verbs).error
         /\ IsNone(Outcome.value)

\* C21 happens: the response of one Connect of a Stream turned into an HTTP
\* response whose body is the document of to_bytes.
C21_Witness ==
  /\ SerializedBy("to_http_response")
  /\ Len(verbs) = 1
  /\ ConnectOfStream(1)
  /\ Outcome.is_ok
  /\ Len(Unwrap(Outcome.value).body) = 7
  /\ Unwrap(Outcome.value).body = Unwrap(to_bytes(verbs).value)
  /\ Unwrap(Outcome.value).headers.content_type = "application/xml"

\* ------------------------------------- properties of the URL that is signed

\* The URIs that have the path and query of u as received and any scheme and
\* authority a URI can have with it: with a scheme there is an authority, and
\* without a scheme there is an authority (authority form) exactly when
\* there is no path.
SameButSchemeOrHost(u) ==
  { v \in [scheme : {None, Some("http"), Some("https")},
           authority : {None, Some(host_name), Some(other_host)},
           path_and_query : {u.path_and_query}] :
      /\ IsSome(v.scheme) => IsSome(v.authority)
      /\ IsNone(v.scheme) =>
           (IsSome(v.authority) <=> v.path_and_query = <<>>) }

\* What the call returns for the request with its URI replaced by v.
ResultWithUri(v) ==
  validate_twilio_signature(request.auth_token, request.method, v,
                            request.headers, request.post_params).result

\* A URI in authority form: an authority and no scheme.
AuthorityForm(u) == IsNone(u.scheme) /\ IsSome(u.authority)

\* C22 as stated: the canonical string starts with "https://", the Host
\* header and the path and query of the URI, and every request that differs
\* from this one in the scheme or the authority of its URI alone, or in
\* whether it has them, gets the same result.
C22_AsStated ==
  Called =>
    /\ IsSome(Unwrap(returned).data) =>
         starts_with(Unwrap(Unwrap(returned).data), UrlPart)
    /\ \A v \in SameButSchemeOrHost(request.uri) : ResultWithUri(v) = Result

\* C22, amended: the canonical string starts with "https://", the Host
\* header and the path and query of the URI, and what the scheme and the
\* authority of the URI are does not enter it: two requests that differ in
\* them alone get the same result, unless one URI is in authority form and
\* the other is not.  Of a URI without a path the form does enter: in
\* authority form nothing follows the Host header, with a scheme "/" does.
C22_SchemeAndHostNotSigned ==
  Called =>
    /\ IsSome(Unwrap(returned).data) =>
         /\ starts_with(Unwrap(Unwrap(returned).data), UrlPart)
         /\ (AuthorityForm(request.uri) /\ ~FormPost) =>
              Unwrap(Unwrap(returned).data) = s_https \o Unwrap(HostHeader)
         /\ (/\ ~AuthorityForm(request.uri)
             /\ request.uri.path_and_query = <<>>
             /\ ~FormPost) =>
              Unwrap(Unwrap(returned).data)
                = s_https \o Unwrap(HostHeader) \o <<"/">>
    /\ \A v \in SameButSchemeOrHost(request.uri) :
         (AuthorityForm(v) <=> AuthorityForm(request.uri)) =>
           ResultWithUri(v) = Result

\* C22 happens: a request whose URI says http and another host than the Host
\* header is accepted on the signature over https and the Host header, as is
\* the same request with a URI of the path and query alone.
C22_Witness ==
  /\ Called
  /\ request.uri.scheme = Some("http")
  /\ request.uri.authority = Some(other_host)
  /\ HostHeader = Some(host_name)
  /\ Result = "Ok"
  /\ Uri(None, None, request.uri.path_and_query)
       \in SameButSchemeOrHost(request.uri)
  /\ ResultWithUri(Uri(None, None, request.uri.path_and_query)) = "Ok"

\* ------------------------------------------- properties of concurrent calls

\* The caller's call has returned.
HasReturned(p) == calls[p].pc = "done"

\* What the call of a caller returns when it runs alone on its arguments.
RunAlone(p) ==
  IF calls[p].op = "to_bytes" THEN to_bytes(calls[p].verbs)
  ELSE validate_twilio_signature(calls[p].request.auth_token,
                                 calls[p].request.method, calls[p].request.uri,
                                 calls[p].request.headers,
                                 calls[p].request.post_params).result

\* C25: signature verification and serialization keep no state between
\* calls: under every interleaving of the statements of concurrent
\* validate_twilio_signature and to_bytes calls on requests and responses of
\* their own, each call returns what it returns when run alone on the same
\* arguments, and a caller that has returned holds nothing of the call.
C25_CallsIndependent ==
  \A p \in Callers :
    /\ HasReturned(p) => Unwrap(calls[p].result) = RunAlone(p)
    /\ calls[p].op = "none" => calls[p] = NoCall

\* C25 happens: two to_bytes calls on different responses have both written
\* their documents, statement by statement, and one has returned Ok and the
\* other UnsupportedNoun after it had written its root.
C25_Witness ==
  /\ HasReturned("a")
  /\ HasReturned("b")
  /\ calls["a"].verbs = << Connect(Stream_new(wss_url)) >>
  /\ calls["b"].verbs = << Reject, Connect(Conference_new(room)) >>
  /\ Unwrap(calls["a"].result).is_ok
  /\ Unwrap(calls["b"].result) = Err(UnsupportedNoun)

\* ------------------------------ properties of the order of serialization

\* How many verbs of the caller's response have passed the match of
\* to_bytes so far.
Passed(p) ==
  CASE calls[p].pc = "match" -> calls[p].i - 1
    [] calls[p].pc = "write" -> calls[p].i
    [] calls[p].pc = "done" /\ Unwrap(calls[p].result).is_ok ->
         Len(calls[p].verbs)
    [] OTHER -> 0

\* C23: during a to_bytes call every verb is validated before anything of
\* the document is written: the writer holds nothing, neither the root nor
\* a verb, until the validation of the last verb has passed.
C23_ValidatedBeforeWritten ==
  \A p \in Callers :
    (calls[p].op = "to_bytes" /\ calls[p].writer # EventWriter_new) =>
      Passed(p) = Len(calls[p].verbs)

\* The errors the rules give for a verb: that of the match of to_bytes, and
\* for a Dial that of the validation of its own fields.
ErrorsOf(verb) ==
  (IF ~match_verb(verb).is_ok THEN { Unwrap(match_verb(verb).error) } ELSE {})
    \cup (IF verb.verb = "Dial" /\ ~Dial_validate(verb.dial).is_ok
            THEN { Unwrap(Dial_validate(verb.dial).error) } ELSE {})

\* The positions of the invalid verbs of the response.
InvalidVerbs == { i \in 1..Len(verbs) : ErrorsOf(verbs[i]) # {} }

\* C24: when several verbs of a response are invalid, serialization aborts
\* at the first invalid verb in append order and returns the error of that
\* verb; the verbs after it are neither validated nor written.
C24_FirstInvalidVerb ==
  (HasSerialized /\ Cardinality(InvalidVerbs) >= 2) =>
    LET first == CHOOSE i \in InvalidVerbs : \A j \in InvalidVerbs : i <= j
        run == to_bytes_loop(verbs, 1,
                 write(EventWriter_new, StartElement("Response", <<>>)))
    IN  /\ ~Outcome.is_ok
        /\ Failure \in ErrorsOf(verbs[first])
        /\ run.matched = first
        /\ Cardinality(ChildrenOf(run.writer \o <<EndElement>>)) = first - 1

\* ------------------------------- properties of the parameters that are signed

\* The pairs of a sequence of insertions, as a set.
MappingOf(insertions) == { insertions[i] : i \in 1..Len(insertions) }

\* What the call returns, and the canonical string and the signature it
\* computes, for the request with its parameters replaced by the map the
\* insertions build.
ReturnedWithParams(insertions) ==
  validate_twilio_signature(request.auth_token, request.method, request.uri,
                            request.headers, Some(BTreeMap_from(insertions)))

\* C26: keys and values are concatenated with nothing between them, so the
\* call cannot tell apart two mappings whose sorted concatenations are equal,
\* such as {"a": "bc"} and {"ab": "c"}: with all other arguments equal it
\* signs the same canonical string and returns the same for both, and a
\* signature valid for one is accepted for the other.
C26_ConcatenationCollides ==
  (Called /\ IsSome(inserted)) =>
    \A other \in Insertions :
      SortedConcat(MappingOf(other)) = SortedConcat(Mapping) =>
        ReturnedWithParams(other) = Unwrap(returned)

\* C26 happens: a form POST with {"a": "bc"} and the signature over it is
\* accepted, and so is the same request with {"ab": "c"}.
C26_Witness ==
  /\ Called
  /\ FormPost
  /\ HostReadable
  /\ IsSome(SignatureHeader)
  /\ Mapping = { Pair(<<"a">>, <<"b", "c">>) }
  /\ Unwrap(SignatureHeader) = ExpectedSignature
  /\ Result = "Ok"
  /\ << Pair(<<"a", "b">>, <<"c">>) >> \in Insertions
  /\ Mapping # MappingOf(<< Pair(<<"a", "b">>, <<"c">>) >>)
  /\ ReturnedWithParams(<< Pair(<<"a", "b">>, <<"c">>) >>).result = "Ok"

\* ------------------------------------- properties of unreadable headers

\* The header is present and its value is not visible ASCII text.
Unreadable(header) == IsSome(header) /\ IsNone(to_str(Unwrap(header)))

\* C27 as stated: a Host or X-Twilio-Signature header that is present and
\* unreadable makes the call return Err(InvalidSignature), whatever the other
\* header is.
C27_AsStated ==
  Called =>
    /\ Unreadable(HostHeader) => Result = "InvalidSignature"
    /\ Unreadable(SignatureHeader) => Result = "InvalidSignature"

\* C27, amended: an unreadable Host header makes the call return
\* Err(InvalidSignature), never MissingHost, also when X-Twilio-Signature is
\* absent; an unreadable X-Twilio-Signature header makes it return
\* Err(InvalidSignature), never MissingSignature, when a Host header is
\* present, and Err(MissingHost) when there is none.
C27_UnreadableHeaders ==
  Called =>
    /\ Unreadable(HostHeader) => Result = "InvalidSignature"
    /\ (Unreadable(SignatureHeader) /\ IsSome(HostHeader)) =>
         Result = "InvalidSignature"
    /\ (Unreadable(SignatureHeader) /\ IsNone(HostHeader)) =>
         Result = "MissingHost"

\* C27 happens: a Host header that is not text, no X-Twilio-Signature header,
\* and InvalidSignature returned.
C27_Witness ==
  /\ Called
  /\ Unreadable(HostHeader)
  /\ IsNone(SignatureHeader)
  /\ Result = "InvalidSignature"

\* ------------------------------------- properties of the wss prefix test

\* The serialization failed with the invalid_websocket_url error on url.
RefusedAsNotWss ==
  /\ ~Outcome.is_ok
  /\ Failure.kind = "Validation"
  /\ \E e \in Failure.errors :
       e.field = "url" /\ e.code = "invalid_websocket_url"

\* C28: the wss check on the url of a Stream is a prefix test on the text as
\* written, capitals and small letters apart: a response serializes only if
\* the url of each Connect Stream begins with "wss://" in small letters and
\* parses as a URL, and a url that does not begin so, such as "WSS://h/c",
\* whose scheme is wss once parsed, is refused with the
\* invalid_websocket_url error (returned when no verb before it is refused).
C28_WssPrefixAsWritten ==
  HasSerialized =>
    \A i \in 1..Len(verbs) :
      ConnectOfStream(i) =>
        LET u == verbs[i].noun.url
        IN  /\ Outcome.is_ok => (starts_with(u, s_wss) /\ validate_url(u))
            /\ ~starts_with(u, s_wss) =>
                 /\ ~Outcome.is_ok
                 /\ EarlierVerbsPass(i) => RefusedAsNotWss

\* C28 happens: the Stream of "WSS://h/c", a URL whose scheme parses as wss,
\* is refused with invalid_websocket_url and with no other error.
C28_Witness ==
  /\ HasSerialized
  /\ Len(verbs) = 1
  /\ ConnectOfStream(1)
  /\ verbs[1].noun.url = <<"W", "S", "S", ":", "/", "/", "h", "/", "c">>
  /\ validate_url(verbs[1].noun.url)
  /\ url_scheme(verbs[1].noun.url) = Some(<<"w", "s", "s">>)
  /\ RefusedAsNotWss
  /\ Cardinality(Failure.errors) = 1

\* ------------------------------------- properties of repeated serialization

\* What a serialization returned, the HTTP envelope taken off: Ok or not,
\* the document, and the error.
Returns(s) ==
  [is_ok |-> s.result.is_ok,
   document |-> IF s.op = "to_http_response" /\ s.result.is_ok
                  THEN Some(Unwrap(s.result.value).body)
                  ELSE s.result.value,
   error |-> s.result.error]

\* C29: serialization reads the response and leaves it as it is: a call of
\* to_bytes, to_string or to_http_response does not change the verbs, every
\* further call on the same response, of whichever of the three and also
\* after a failed call, returns the same, and a verb can still be appended
\* after it.
C29_SerializationRepeatable ==
  /\ [][IsSome(serialized') =>
          /\ verbs' = verbs
          /\ HasSerialized => Returns(Unwrap(serialized'))
                                = Returns(Unwrap(serialized))]_vars
  /\ []((HasSerialized /\ Len(verbs) < MaxVerbs) => ENABLED RejectCall)

\* C29 happens: to_http_response has failed on a response of a refused verb,
\* with the error to_bytes returns for it, the verb is still there and a
\* further verb can be appended.
C29_Witness ==
  /\ SerializedBy("to_http_response")
  /\ verbs = << Connect(Conference_new(room)) >>
  /\ Returns(Unwrap(serialized))
       = Returns(Serialized("to_bytes", to_bytes(verbs)))
  /\ ~Outcome.is_ok
  /\ ENABLED RejectCall

\* ------------------------------------------- properties of the client

\* What validate_twilio_signature returns for the request under the token
\* of the client.
DirectResult ==
  validate_twilio_signature(client.auth_token, request.method, request.uri,
                            request.headers, request.post_params).result

\* C30: TwilioClient::validate_request is validate_twilio_signature called
\* with the auth_token of the client: it returns Ok exactly when that call
\* returns Ok, and otherwise the same SignatureValidationError wrapped as
\* TwilioError::Validation; and no call on the client, set_region among
\* them, changes the token that is used.
C30_ValidateRequestDelegates ==
  /\ [](IsSome(returned) =>
          /\ Unwrap(returned).is_ok <=> DirectResult = "Ok"
          /\ ~Unwrap(returned).is_ok =>
               Unwrap(returned).error
                 = Some(TwilioError_Validation(DirectResult)))
  /\ [][client'.auth_token = client.auth_token]_vars

\* C30 happens: after set_region a client accepts a request signed with its
\* token.
C30_Witness ==
  /\ IsSome(returned)
  /\ client.region = "Ireland"
  /\ request.auth_token = client.auth_token
  /\ request.method = "POST"
  /\ Unwrap(returned) = Ok("unit")
====
